---- MODULE Spec2Model ----
(***************************************************************************)
(* A model of the XBRL fact model and validation engine:                   *)
(*   - XBRLProcessor (src/processor.py): the contexts / units / facts      *)
(*     collections, validate(), load_calculation();                        *)
(*   - CalculationValidator (src/validators/calculation_validator.py):     *)
(*     load_calculation_linkbase, validate_calculations,                   *)
(*     get_calculation_network;                                            *)
(*   - TaxonomyValidator (src/validators/taxonomy_validator.py):           *)
(*     validate_concept.                                                   *)
(* Python dicts are modelled as sequences of <<key, value>> entries in     *)
(* insertion order where the order is observable, and as functions where   *)
(* it is not.  Decimal amounts are integers counting hundredths (0.01).    *)
(***************************************************************************)
EXTENDS Integers, Sequences, FiniteSets, TLC

VARIABLES
    \* XBRLProcessor
    contexts,            \* self.contexts: id -> XBRLContext
    units,               \* self.units: id -> XBRLUnit
    facts,               \* self.facts: list of XBRLFact
    calculation_tree,    \* self.calculation_tree: <<>> for None, else <<the parsed linkbase>>
    errors,              \* list returned by the last validate()
    proc_op,             \* last processor operation
    document,            \* the document handed to the last load
    pc,                  \* position of the load that is running
    \* CalculationValidator
    calc_relationships,  \* self.calc_relationships: parent -> list, insertion-ordered
    calculation_roles,   \* self.calculation_roles: role URI -> label
    calc_call,           \* argument and outcome of the last validator call
    calc_op,             \* last validator operation
    \* TaxonomyValidator
    concept_info,        \* self.concept_info: concept key -> definition
    tax_call,            \* arguments and result of the last taxonomy validator call
    tax_op               \* last taxonomy validator operation

procVars == <<contexts, units, facts, calculation_tree, errors, proc_op, document, pc>>
calcVars == <<calc_relationships, calculation_roles, calc_call, calc_op>>
taxVars  == <<concept_info, tax_call, tax_op>>
vars     == <<contexts, units, facts, calculation_tree, errors, proc_op, document, pc,
              calc_relationships, calculation_roles, calc_call, calc_op,
              concept_info, tax_call, tax_op>>

\* Python's None where a string or a document is expected.
None == "<None>"

\* No load is running.  Within a load: the method, the parse it is in, the
\* number of elements that parse has handled, the parses that have
\* returned, and the local list facts_found.
Idle == [op |-> "idle", phase |-> "idle", i |-> 0, done |-> {}, found |-> <<>>]

(***************************************************************************)
(* Generic helpers                                                         *)
(***************************************************************************)
Range(s) == {s[i] : i \in 1..Len(s)}

SeqsUpTo(S, n) == UNION {[1..k -> S] : k \in 0..n}

\* Python truthiness of an Optional[str]:  `if x:` / `if not x:`
Truthy(s) == s # None /\ s # ""

\* A Python str whose characters the code inspects is a sequence of
\* one-character strings.
\* sub in text
Contains(sub, text) ==
    \E i \in 0..(Len(text) - Len(sub)) : SubSeq(text, i + 1, i + Len(sub)) = sub

LowerCase ==
    [c \in {"A", "B", "C", "D", "E", "F", "G", "H", "I", "J", "K", "L", "M",
            "N", "O", "P", "Q", "R", "S", "T", "U", "V", "W", "X", "Y", "Z"} |->
        CASE c = "A" -> "a" [] c = "B" -> "b" [] c = "C" -> "c" [] c = "D" -> "d"
          [] c = "E" -> "e" [] c = "F" -> "f" [] c = "G" -> "g" [] c = "H" -> "h"
          [] c = "I" -> "i" [] c = "J" -> "j" [] c = "K" -> "k" [] c = "L" -> "l"
          [] c = "M" -> "m" [] c = "N" -> "n" [] c = "O" -> "o" [] c = "P" -> "p"
          [] c = "Q" -> "q" [] c = "R" -> "r" [] c = "S" -> "s" [] c = "T" -> "t"
          [] c = "U" -> "u" [] c = "V" -> "v" [] c = "W" -> "w" [] c = "X" -> "x"
          [] c = "Y" -> "y" [] c = "Z" -> "z"]

\* text.lower()
lower(text) ==
    [i \in 1..Len(text) |->
        IF text[i] \in DOMAIN LowerCase THEN LowerCase[text[i]] ELSE text[i]]

(***************************************************************************)
(* Document model (src/core/models.py)                                     *)
(***************************************************************************)
XBRLContext(id, entity, instant, period_start, period_end) ==
    [id |-> id, entity |-> entity, instant |-> instant,
     period_start |-> period_start, period_end |-> period_end]

XBRLUnit(id, measures) ==
    [id |-> id, measures |-> measures, divide |-> FALSE,
     numerator |-> <<>>, denominator |-> <<>>]

XBRLFact(concept, value, context_ref, unit_ref) ==
    [concept |-> concept, value |-> value,
     context_ref |-> context_ref, unit_ref |-> unit_ref]

\* A fact value: a Python int, float or str.  n is the amount of a number in
\* hundredths (0 for a str, whose text no validator reads).
Amount(whole) == whole * 100
IntValue(n)   == [type |-> "int", n |-> n]
FloatValue(n) == [type |-> "float", n |-> n]
StrValue      == [type |-> "str", n |-> 0]

(***************************************************************************)
(* XBRLProcessor.validate (src/processor.py)                               *)
(***************************************************************************)
\* isinstance(fact.value, (int, float))
IsNumericIntOnly(value) == value.type = "int"
IsNumeric(value) == value.type \in {"int", "float"}

\* `if not fact.unit_ref`
UnitRefAbsent(unit_ref) == ~Truthy(unit_ref)

Diagnostic(kind, i, fact, ref) ==
    [kind |-> kind, fact |-> i, concept |-> fact.concept, ref |-> ref]

\* The context check of one fact (lines 706-709).
ContextCheckInverted(i, fact, ctxs) ==
    IF fact.context_ref \in DOMAIN ctxs
        THEN <<Diagnostic("MissingContext", i, fact, fact.context_ref)>>
        ELSE <<>>
ContextCheck(i, fact, ctxs) ==
    IF fact.context_ref \notin DOMAIN ctxs
        THEN <<Diagnostic("MissingContext", i, fact, fact.context_ref)>>
        ELSE <<>>

\* The unit check of one fact (lines 711-726).
UnitCheck(i, fact, us) ==
    IF IsNumeric(fact.value)
        THEN IF UnitRefAbsent(fact.unit_ref)
                 THEN <<Diagnostic("MissingUnitRef", i, fact, fact.unit_ref)>>
                 ELSE IF fact.unit_ref \notin DOMAIN us
                          THEN <<Diagnostic("MissingUnit", i, fact, fact.unit_ref)>>
                          ELSE <<>>
        ELSE IF Truthy(fact.unit_ref)
                 THEN <<Diagnostic("NonNumericUnit", i, fact, fact.unit_ref)>>
                 ELSE <<>>

\* The body of `for fact in self.facts` applied to the first n facts.
RECURSIVE ValidateFacts(_, _, _, _)
ValidateFacts(fs, ctxs, us, n) ==
    IF n = 0 THEN <<>>
    ELSE ValidateFacts(fs, ctxs, us, n - 1)
             \o ContextCheck(n, fs[n], ctxs)
             \o UnitCheck(n, fs[n], us)

\* a validate() that consumes the facts it has checked
validate_consuming_facts ==
    /\ errors' = ValidateFacts(facts, contexts, units, Len(facts))
    /\ proc_op' = "validate"
    /\ facts' = <<>>
    /\ UNCHANGED <<contexts, units, calculation_tree, document>>
    /\ UNCHANGED pc
    /\ UNCHANGED calcVars
    /\ UNCHANGED taxVars
validate ==
    /\ errors' = ValidateFacts(facts, contexts, units, Len(facts))
    /\ proc_op' = "validate"
    /\ UNCHANGED <<contexts, units, facts, calculation_tree, document>>
    /\ UNCHANGED pc
    /\ UNCHANGED calcVars
    /\ UNCHANGED taxVars

(***************************************************************************)
(* The caller's population of the public collections, as the tests do it   *)
(* (processor.contexts.update, processor.units[id] = ..., facts.extend).   *)
(***************************************************************************)
MaxFacts == 2

ContextIds == {"ctx1"}
ContextRefs == {"ctx1", "missing"}
UnitIds == {"usd"}
UnitRefs == {None, "", "usd", "missing"}
FactValues == {IntValue(Amount(100)), FloatValue(Amount(100)), StrValue}
FactConcepts == {"test:Fact"}

SampleContext(id) == XBRLContext(id, "http://entity.com:TEST", "2024-01-01", None, None)

FactInputs ==
    {XBRLFact(c, v, cr, ur) :
        c \in FactConcepts, v \in FactValues, cr \in ContextRefs, ur \in UnitRefs}

\* m with key k bound to v (dict item assignment)
DictSet(m, k, v) == [x \in DOMAIN m \cup {k} |-> IF x = k THEN v ELSE m[x]]

EmptyDict == [x \in {} |-> None]

update_contexts(id) ==
    /\ contexts' = DictSet(contexts, id, SampleContext(id))
    /\ errors' = <<>>
    /\ proc_op' = "populate"
    /\ UNCHANGED <<units, facts, calculation_tree, document>>
    /\ UNCHANGED pc
    /\ UNCHANGED calcVars
    /\ UNCHANGED taxVars

set_unit(id) ==
    /\ units' = DictSet(units, id, XBRLUnit(id, <<"iso4217:USD">>))
    /\ errors' = <<>>
    /\ proc_op' = "populate"
    /\ UNCHANGED <<contexts, facts, calculation_tree, document>>
    /\ UNCHANGED pc
    /\ UNCHANGED calcVars
    /\ UNCHANGED taxVars

extend_facts(fact) ==
    /\ Len(facts) < MaxFacts
    /\ facts' = Append(facts, fact)
    /\ errors' = <<>>
    /\ proc_op' = "populate"
    /\ UNCHANGED <<contexts, units, calculation_tree, document>>
    /\ UNCHANGED pc
    /\ UNCHANGED calcVars
    /\ UNCHANGED taxVars


(***************************************************************************)
(* CalculationValidator (src/validators/calculation_validator.py)          *)
(*                                                                         *)
(* A linkbase document is                                                  *)
(*   [roleRefs : Seq([roleURI, label]),                                    *)
(*    links    : Seq([role, locs : Seq([label, href]),                     *)
(*                          arcs : Seq([from, to, weight, order])])]       *)
(* with attribute values as written in the document (None when the         *)
(* attribute is absent).  An href is the sequence of its '#'-separated     *)
(* pieces.                                                                 *)
(***************************************************************************)
CalculationRelationship(parent, child, weight, order, role) ==
    [parent |-> parent, child |-> child, weight |-> weight,
     order |-> order, role |-> role]

\* dict.get(key, default) on an attribute
AttrGet(value, default) == IF value = None THEN default ELSE value

\* Decimal(text): the numerals of the model's documents; any other text
\* raises decimal.InvalidOperation.
DecimalLiterals == {"1", "1.0", "-1", "2"}
DecimalParses(text) == text \in DecimalLiterals
DecimalOf(text) ==
    CASE text = "1"   -> 1
      [] text = "1.0" -> 1
      [] text = "-1"  -> -1
      [] text = "2"   -> 2

\* int(text): raises ValueError on anything but an integer numeral
\* (int("1.0") raises too).
IntLiterals == {"1", "2", "3", "-1"}
IntParses(text) == text \in IntLiterals
IntOf(text) ==
    CASE text = "1"  -> 1
      [] text = "2"  -> 2
      [] text = "3"  -> 3
      [] text = "-1" -> -1

\* _extract_concept_from_href: href.split('#')[-1]
_extract_concept_from_href(href) == href[Len(href)]

\* An insertion-ordered dict as a sequence of entries [key, val].
Keys(d) == {d[i].key : i \in 1..Len(d)}
IndexOf(d, k) == CHOOSE i \in 1..Len(d) : d[i].key = k
Get(d, k) == d[IndexOf(d, k)].val
Put(d, k, v) ==
    IF k \in Keys(d)
        THEN [d EXCEPT ![IndexOf(d, k)] = [key |-> k, val |-> v]]
        ELSE Append(d, [key |-> k, val |-> v])

\* Lines 44-47: the role declarations of the document.
RECURSIVE LoadRoles(_, _, _)
LoadRoles(roles, roleRefs, n) ==
    IF n = 0 THEN roles
    ELSE LET prev == LoadRoles(roles, roleRefs, n - 1)
             ref  == roleRefs[n]
         IN IF Truthy(ref.roleURI)
                THEN Put(prev, ref.roleURI, AttrGet(ref.label, ref.roleURI))
                ELSE prev

\* Lines 54-60: the locator map of one calculation group.
RECURSIVE BuildLocators(_, _)
BuildLocators(locs, n) ==
    IF n = 0 THEN <<>>
    ELSE LET prev == BuildLocators(locs, n - 1)
             loc  == locs[n]
         IN IF Truthy(loc.label) /\ loc.href # <<>>
                THEN Put(prev, loc.label, _extract_concept_from_href(loc.href))
                ELSE prev

\* Lines 82-84: append a relationship under its parent.
AppendRelationshipReplacing(rels, rel) == Put(rels, rel.parent, <<rel>>)
AppendRelationship(rels, rel) ==
    IF rel.parent \in Keys(rels)
        THEN Put(rels, rel.parent, Append(Get(rels, rel.parent), rel))
        ELSE Put(rels, rel.parent, <<rel>>)

\* Lines 64-87: one calculation arc.  st = [rels, raised]; a weight that
\* Decimal() rejects raises InvalidOperation, which `except (ValueError,
\* KeyError)` does not catch; an order that int() rejects raises
\* ValueError, which it does catch (the arc is skipped with a warning).
ProcessArc(st, arc, role, locators) ==
    LET weightText == AttrGet(arc.weight, "1.0")
        orderText  == AttrGet(arc.order, "1")
    IN IF st.raised THEN st
       ELSE IF ~DecimalParses(weightText) THEN [st EXCEPT !.raised = TRUE]
       ELSE IF ~IntParses(orderText) THEN st
       ELSE IF arc.from \in Keys(locators) /\ arc.to \in Keys(locators)
           THEN [st EXCEPT !.rels = AppendRelationship(st.rels,
                    CalculationRelationship(Get(locators, arc.from),
                                            Get(locators, arc.to),
                                            DecimalOf(weightText),
                                            IntOf(orderText), role))]
           ELSE st

RECURSIVE ProcessArcs(_, _, _, _, _)
ProcessArcs(st, arcs, role, locators, n) ==
    IF n = 0 THEN st
    ELSE ProcessArc(ProcessArcs(st, arcs, role, locators, n - 1),
                    arcs[n], role, locators)

\* Lines 50-87: the calculation groups of the document, in document order.
RECURSIVE ProcessLinks(_, _, _)
ProcessLinks(st, links, n) ==
    IF n = 0 THEN st
    ELSE LET prev == ProcessLinks(st, links, n - 1)
             link == links[n]
         IN ProcessArcs(prev, link.arcs, AttrGet(link.role, ""),
                        BuildLocators(link.locs, Len(link.locs)),
                        Len(link.arcs))

\* The relationships and the raised flag after loading doc into rels.
LoadedRelationships(rels, doc) ==
    ProcessLinks([rels |-> rels, raised |-> FALSE], doc.links, Len(doc.links))


\* sorted(relationships, key=lambda r: r.order): a stable sort, as an
\* insertion of each element after the elements not greater than it.
InsertByOrderDescending(sorted, rel) ==
    LET before == SelectSeq(sorted, LAMBDA r : r.order >= rel.order)
        after  == SelectSeq(sorted, LAMBDA r : r.order < rel.order)
    IN before \o <<rel>> \o after
InsertByOrder(sorted, rel) ==
    LET before == SelectSeq(sorted, LAMBDA r : r.order <= rel.order)
        after  == SelectSeq(sorted, LAMBDA r : r.order > rel.order)
    IN before \o <<rel>> \o after

RECURSIVE SortedByOrder(_)
SortedByOrder(relationships) ==
    IF relationships = <<>> THEN <<>>
    ELSE InsertByOrder(SortedByOrder(SubSeq(relationships, 1, Len(relationships) - 1)),
                       relationships[Len(relationships)])

\* A value of the facts mapping handed to validate_calculations: a Decimal
\* (amount n, in hundredths) or something else (a str).  Python ints mix
\* with Decimal; float and str operands raise TypeError.
DecimalValue(n) == [type |-> "Decimal", n |-> n]
SupportsDecimalArithmetic(value) == value.type \in {"Decimal", "int"}

\* Decimal('0.01'), in hundredths
Tolerance == 1

Abs(x) == IF x < 0 THEN -x ELSE x

OutsideToleranceInclusive(parent_value, expected_sum) ==
    Abs(parent_value - expected_sum) >= Tolerance
OutsideTolerance(parent_value, expected_sum) ==
    Abs(parent_value - expected_sum) > Tolerance

\* a loop that counts a child once however many relationships name it
SumStepOncePerChild(acc, rel, cfacts) ==
    IF acc.raised \/ rel.child \in acc.used_children
            \/ rel.child \in Range(acc.missing_children) THEN acc
    ELSE IF rel.child \in DOMAIN cfacts
        THEN IF SupportsDecimalArithmetic(cfacts[rel.child])
                 THEN [acc EXCEPT
                          !.expected_sum = @ + cfacts[rel.child].n * rel.weight,
                          !.used_children = @ \cup {rel.child}]
                 ELSE [acc EXCEPT !.raised = TRUE]
        ELSE [acc EXCEPT !.missing_children = Append(@, rel.child)]

\* Lines 125-136, the loop over sorted_rels:
\*   acc = [raised, expected_sum, missing_children, used_children]
SumStep(acc, rel, cfacts) ==
    IF acc.raised THEN acc
    ELSE IF rel.child \in DOMAIN cfacts
        THEN IF SupportsDecimalArithmetic(cfacts[rel.child])
                 THEN [acc EXCEPT
                          !.expected_sum = @ + cfacts[rel.child].n * rel.weight,
                          !.used_children = @ \cup {rel.child}]
                 ELSE [acc EXCEPT !.raised = TRUE]
        ELSE [acc EXCEPT !.missing_children = Append(@, rel.child)]

RECURSIVE SumChildren(_, _, _)
SumChildren(sorted_rels, cfacts, n) ==
    IF n = 0
        THEN [raised |-> FALSE, expected_sum |-> 0,
              missing_children |-> <<>>, used_children |-> {}]
        ELSE SumStep(SumChildren(sorted_rels, cfacts, n - 1), sorted_rels[n], cfacts)

\* calculation_roles.get(role, "default")
RoleDescription(roles, role) ==
    IF role \in Keys(roles) THEN Get(roles, role) ELSE "default"

CalculationError(parent, role_desc, context_id, expected, actual, used) ==
    [kind |-> "CalculationError", parent |-> parent, role |-> role_desc,
     context |-> context_id, expected |-> expected, actual |-> actual,
     children |-> used, missing |-> <<>>]

MissingChildren(parent, context_id, missing) ==
    [kind |-> "MissingChildren", parent |-> parent, role |-> None,
     context |-> context_id, expected |-> 0, actual |-> 0,
     children |-> {}, missing |-> missing]

\* Lines 121-155: the check of one parent concept in one context.
\* Returns [raised, errors] with errors the diagnostics appended.
CheckParentSkipMissing(parent_concept, relationships, roles, cfacts, context_id) ==
    LET acc == SumChildren(SortedByOrder(relationships), cfacts, Len(relationships))
    IN IF acc.raised THEN [raised |-> TRUE, errors |-> <<>>]
       ELSE IF ~SupportsDecimalArithmetic(cfacts[parent_concept])
            THEN [raised |-> TRUE, errors |-> <<>>]
       ELSE IF OutsideTolerance(cfacts[parent_concept].n, acc.expected_sum)
            THEN [raised |-> FALSE,
                  errors |-> <<CalculationError(parent_concept,
                      RoleDescription(roles, relationships[1].role), context_id,
                      acc.expected_sum, cfacts[parent_concept].n,
                      acc.used_children)>>]
       ELSE [raised |-> FALSE, errors |-> <<>>]
\* a check that reports each missing child in a diagnostic of its own
CheckParentPerChild(parent_concept, relationships, roles, cfacts, context_id) ==
    LET acc == SumChildren(SortedByOrder(relationships), cfacts, Len(relationships))
    IN IF acc.raised THEN [raised |-> TRUE, errors |-> <<>>]
       ELSE [raised |-> FALSE,
             errors |-> [i \in 1..Len(acc.missing_children) |->
                            MissingChildren(parent_concept, context_id,
                                            <<acc.missing_children[i]>>)]]
CheckParent(parent_concept, relationships, roles, cfacts, context_id) ==
    LET acc == SumChildren(SortedByOrder(relationships), cfacts, Len(relationships))
    IN IF acc.raised THEN [raised |-> TRUE, errors |-> <<>>]
       ELSE IF acc.missing_children = <<>>
           THEN IF ~SupportsDecimalArithmetic(cfacts[parent_concept])
                    THEN [raised |-> TRUE, errors |-> <<>>]
                ELSE IF OutsideTolerance(cfacts[parent_concept].n, acc.expected_sum)
                    THEN [raised |-> FALSE,
                          errors |-> <<CalculationError(parent_concept,
                              RoleDescription(roles, relationships[1].role),
                              context_id, acc.expected_sum,
                              cfacts[parent_concept].n, acc.used_children)>>]
                ELSE [raised |-> FALSE, errors |-> <<>>]
           ELSE [raised |-> FALSE,
                 errors |-> <<MissingChildren(parent_concept, context_id,
                                              acc.missing_children)>>]

\* validate_context_calculations: the loop over calc_relationships.items()
\* applied to the first n entries.  st = [raised, errors, processed].
RECURSIVE validate_context_calculations(_, _, _, _, _)
validate_context_calculations(rels, roles, cfacts, context_id, n) ==
    IF n = 0 THEN [raised |-> FALSE, errors |-> <<>>, processed |-> {}]
    ELSE LET st    == validate_context_calculations(rels, roles, cfacts, context_id, n - 1)
             entry == rels[n]
         IN IF st.raised THEN st
            ELSE IF entry.key \in DOMAIN cfacts /\ entry.key \notin st.processed
                THEN LET r == CheckParent(entry.key, entry.val, roles, cfacts, context_id)
                     IN IF r.raised THEN [st EXCEPT !.raised = TRUE]
                        ELSE [st EXCEPT !.errors = @ \o r.errors,
                                        !.processed = @ \cup {entry.key}]
                ELSE st

\* validate_calculations: the loop over facts.items().  cfacts_by_ctx is a
\* sequence of entries [key |-> context_id, val |-> concept -> value].
\* An exception leaves the call without a returned list.
RECURSIVE validate_calculations(_, _, _, _)
validate_calculations(rels, roles, cfacts_by_ctx, n) ==
    IF n = 0 THEN [raised |-> FALSE, errors |-> <<>>]
    ELSE LET st == validate_calculations(rels, roles, cfacts_by_ctx, n - 1)
             r  == validate_context_calculations(rels, roles, cfacts_by_ctx[n].val,
                                                 cfacts_by_ctx[n].key, Len(rels))
         IN IF st.raised \/ r.raised THEN [raised |-> TRUE, errors |-> <<>>]
            ELSE [raised |-> FALSE, errors |-> st.errors \o r.errors]

\* get_calculation_network(role): lines 171-175 for the first n entries.
RoleMatches(role, rel) == role = None \/ rel.role = role

FilteredRels(role, relationships) ==
    SelectSeq(relationships, LAMBDA r : RoleMatches(role, r))

ChildWeightPairs(rs) == [i \in 1..Len(rs) |-> <<rs[i].child, rs[i].weight>>]

RECURSIVE get_calculation_network(_, _, _)
get_calculation_network(rels, role, n) ==
    IF n = 0 THEN <<>>
    ELSE LET prev  == get_calculation_network(rels, role, n - 1)
             entry == rels[n]
         IN IF role = None \/ \E i \in 1..Len(entry.val) : entry.val[i].role = role
                THEN Put(prev, entry.key,
                         ChildWeightPairs(SortedByOrder(FilteredRels(role, entry.val))))
                ELSE prev


(***************************************************************************)
(* Linkbase documents loaded in the model                                  *)
(***************************************************************************)
Loc(label, concept) == [label |-> label, href |-> <<"schema.xsd", concept>>]
Arc(from, to, weight, order) ==
    [from |-> from, to |-> to, weight |-> weight, order |-> order]
RoleRef(roleURI, label) == [roleURI |-> roleURI, label |-> label]
CalcLink(role, locs, arcs) == [role |-> role, locs |-> locs, arcs |-> arcs]
Linkbase(roleRefs, links) == [roleRefs |-> roleRefs, links |-> links]

RoleNetIncome == "http://example.com/roles/net-income"
RoleTest      == "http://example.com/role/test"

StdLocs == <<Loc("net_income", "NetIncome"), Loc("revenue", "Revenue"),
             Loc("expenses", "Expenses")>>

\* test_processor.py sample_calculation_xml
SampleLinkbase ==
    Linkbase(<<RoleRef(RoleNetIncome, "net-income")>>,
             <<CalcLink(RoleNetIncome, StdLocs,
                        <<Arc("net_income", "revenue", "1", "1"),
                          Arc("net_income", "expenses", "-1", "2")>>)>>)

\* test_calculation_integration: no roleRef, arcs without an order attribute
IntegrationLinkbase ==
    Linkbase(<<>>,
             <<CalcLink(RoleTest, StdLocs,
                        <<Arc("net_income", "revenue", "1", None),
                          Arc("net_income", "expenses", "-1", None)>>)>>)

\* arcs written in descending order, in a second role
DescendingLinkbase ==
    Linkbase(<<RoleRef(RoleTest, None)>>,
             <<CalcLink(RoleTest, StdLocs,
                        <<Arc("net_income", "expenses", "1", "2"),
                          Arc("net_income", "revenue", "1", "1")>>)>>)

\* Revenue as a parent of NetIncome: with the above, cyclic data
CycleLinkbase ==
    Linkbase(<<>>,
             <<CalcLink(RoleNetIncome, StdLocs,
                        <<Arc("revenue", "net_income", "1", "1")>>)>>)

\* the same arc in a second role
CycleSecondRoleLinkbase ==
    Linkbase(<<>>,
             <<CalcLink(RoleTest, StdLocs,
                        <<Arc("revenue", "net_income", "-1", "2")>>)>>)

\* an arc whose order is not an integer, followed by a good arc
BadOrderLinkbase ==
    Linkbase(<<>>,
             <<CalcLink(RoleTest, StdLocs,
                        <<Arc("net_income", "revenue", "1", "x"),
                          Arc("expenses", "revenue", "1", "3")>>)>>)

\* an arc whose weight is not a decimal, between two good arcs
BadWeightLinkbase ==
    Linkbase(<<>>,
             <<CalcLink(RoleTest, StdLocs,
                        <<Arc("expenses", "net_income", "-1", "1"),
                          Arc("net_income", "revenue", "abc", "1"),
                          Arc("expenses", "revenue", "1", "2")>>)>>)

\* an arc to a label that has no locator in its group; two groups
TwoGroupLinkbase ==
    Linkbase(<<RoleRef(RoleNetIncome, "net-income")>>,
             <<CalcLink(RoleNetIncome, <<Loc("net_income", "NetIncome"),
                                         Loc("revenue", "Revenue")>>,
                        <<Arc("net_income", "expenses", "1", "1"),
                          Arc("net_income", "revenue", "1", "2")>>),
               CalcLink(RoleTest, <<Loc("revenue", "Revenue"),
                                    [label |-> "expenses", href |-> <<"Expenses">>]>>,
                        <<Arc("revenue", "expenses", "2", "1")>>)>>)

LinkbaseDocs == {SampleLinkbase, IntegrationLinkbase, DescendingLinkbase,
                 CycleLinkbase, BadOrderLinkbase, BadWeightLinkbase,
                 TwoGroupLinkbase}

CalcDocs == {SampleLinkbase, IntegrationLinkbase, DescendingLinkbase, CycleLinkbase}

(***************************************************************************)
(* CalculationValidator operations                                         *)
(***************************************************************************)
MaxRels == 4

RECURSIVE TotalRels(_, _)
TotalRels(rels, n) ==
    IF n = 0 THEN 0 ELSE TotalRels(rels, n - 1) + Len(rels[n].val)

NoCall == [facts |-> <<>>, raised |-> FALSE, errors |-> <<>>,
           role |-> None, network |-> <<>>, roots |-> {},
           doc |-> Linkbase(<<>>, <<>>)]

load_calculation_linkbase(doc) ==
    LET st == LoadedRelationships(calc_relationships, doc)
    IN /\ TotalRels(st.rels, Len(st.rels)) <= MaxRels
       /\ calculation_roles' = LoadRoles(calculation_roles, doc.roleRefs, Len(doc.roleRefs))
       /\ calc_relationships' = st.rels
       /\ calc_call' = [NoCall EXCEPT !.raised = st.raised, !.doc = doc]
       /\ calc_op' = "load"
       /\ UNCHANGED procVars
       /\ UNCHANGED taxVars

validate_calculations_call(cfacts_by_ctx) ==
    LET r == validate_calculations(calc_relationships, calculation_roles,
                                   cfacts_by_ctx, Len(cfacts_by_ctx))
    IN /\ calc_call' = [NoCall EXCEPT !.facts = cfacts_by_ctx,
                                      !.raised = r.raised, !.errors = r.errors]
       /\ calc_op' = "validate"
       /\ UNCHANGED <<calc_relationships, calculation_roles>>
       /\ UNCHANGED procVars
       /\ UNCHANGED taxVars

get_calculation_network_call(role) ==
    /\ calc_call' = [NoCall EXCEPT !.role = role,
                        !.network = get_calculation_network(calc_relationships, role,
                                                            Len(calc_relationships))]
    /\ calc_op' = "network"
    /\ UNCHANGED <<calc_relationships, calculation_roles>>
    /\ UNCHANGED procVars
    /\ UNCHANGED taxVars

\* get_calculation_roots(role): the parents with a relationship in the role
\* (all parents when role is None) that are no child in the role.
get_calculation_roots(rels, role) ==
    LET all_parents ==
            {rels[e].key : e \in {x \in 1..Len(rels) :
                role = None \/ \E i \in 1..Len(rels[x].val) : rels[x].val[i].role = role}}
        all_children ==
            UNION {{rels[e].val[i].child : i \in {j \in 1..Len(rels[e].val) :
                        RoleMatches(role, rels[e].val[j])}} : e \in 1..Len(rels)}
    IN all_parents \ all_children

get_calculation_roots_call(role) ==
    /\ calc_call' = [NoCall EXCEPT !.role = role,
                        !.roots = get_calculation_roots(calc_relationships, role)]
    /\ calc_op' = "roots"
    /\ UNCHANGED <<calc_relationships, calculation_roles>>
    /\ UNCHANGED procVars
    /\ UNCHANGED taxVars

\* The facts mappings handed to validate_calculations.
CalcConcepts == {"NetIncome", "Revenue", "Expenses"}
CalcValues == {DecimalValue(1), DecimalValue(2), StrValue}
ConceptMaps == UNION {[cs -> CalcValues] : cs \in SUBSET CalcConcepts}
CalcContextLists == {<<>>, <<"ctx1">>, <<"ctx1", "ctx2">>}
CalcFactsInputs ==
    {[i \in 1..Len(cl) |-> [key |-> cl[i], val |-> m]] :
        cl \in CalcContextLists, m \in ConceptMaps}

RoleQueries == {None, RoleNetIncome, RoleTest, "http://example.com/roles/other"}


(***************************************************************************)
(* TaxonomyValidator (src/validators/taxonomy_validator.py)                *)
(*                                                                         *)
(* A value handed to validate_concept is [type, text, n]: its Python type, *)
(* the class of str(value) (for a str, of the value itself) and, for a     *)
(* numeral, its sign-carrying amount.  The classes of text are             *)
(*   "integer-numeral"  ("100", "-5"),  "fraction-numeral" ("1.5"),        *)
(*   "binary-digit"     ("1", "0": an integer numeral and a boolean token),*)
(*   "boolean-token"    ("true", "FALSE"),  "iso-datetime",  "words".      *)
(* A concept name "namespace:name" is the record [namespace, name].        *)
(***************************************************************************)
ConceptKey(namespace, name) == [namespace |-> namespace, name |-> name]
NoArg == ConceptKey("", "")

ValidationResult(is_valid, errs, warns) ==
    [is_valid |-> is_valid, errors |-> errs, warnings |-> warns]

Message(msg, arg) == [msg |-> msg, arg |-> arg]

TaxValue(type, text, n) == [type |-> type, text |-> text, n |-> n]

\* Decimal(str(value)) succeeds
DecimalAccepts(value) ==
    value.text \in {"integer-numeral", "fraction-numeral", "binary-digit"}
\* int(value) succeeds: any int, float, Decimal or bool; a str only when it
\* is an integer numeral
IntAccepts(value) ==
    \/ value.type \in {"int", "float", "Decimal", "bool"}
    \/ value.type = "str" /\ value.text \in {"integer-numeral", "binary-digit"}

_validate_monetary(value) ==
    IF value.type \notin {"int", "float", "Decimal", "bool"}
        THEN ValidationResult(FALSE, <<Message("Monetary value must be numeric", NoArg)>>, <<>>)
        ELSE ValidationResult(TRUE, <<>>, <<>>)

_validate_string(value) ==
    IF value.type # "str"
        THEN ValidationResult(FALSE, <<Message("Value must be a string", NoArg)>>, <<>>)
        ELSE ValidationResult(TRUE, <<>>, <<>>)

_validate_decimal(value) ==
    IF DecimalAccepts(value)
        THEN ValidationResult(TRUE, <<>>, <<>>)
        ELSE ValidationResult(FALSE, <<Message("Value must be a valid decimal", NoArg)>>, <<>>)

_validate_integer(value) ==
    IF IntAccepts(value)
        THEN ValidationResult(TRUE, <<>>, <<>>)
        ELSE ValidationResult(FALSE, <<Message("Value must be a valid integer", NoArg)>>, <<>>)

_validate_datetime(value) ==
    IF value.type = "datetime" THEN ValidationResult(TRUE, <<>>, <<>>)
    ELSE IF value.type = "str"
        THEN IF value.text = "iso-datetime"
                 THEN ValidationResult(TRUE, <<>>, <<>>)
                 ELSE ValidationResult(FALSE, <<Message("Value must be a valid datetime", NoArg)>>, <<>>)
        ELSE ValidationResult(FALSE, <<Message("Invalid datetime format", NoArg)>>, <<>>)

_validate_boolean(value) ==
    IF value.type = "bool" THEN ValidationResult(TRUE, <<>>, <<>>)
    ELSE IF value.type = "str" /\ value.text \in {"boolean-token", "binary-digit"}
        THEN ValidationResult(TRUE, <<>>, <<>>)
        ELSE ValidationResult(FALSE, <<Message("Value must be a valid boolean", NoArg)>>, <<>>)

allowed_types == {"monetaryItemType", "stringItemType", "decimalItemType",
                  "integerItemType", "dateTimeItemType", "booleanItemType"}

TypeValidator(type_name, value) ==
    CASE type_name = "monetaryItemType" -> _validate_monetary(value)
      [] type_name = "stringItemType"   -> _validate_string(value)
      [] type_name = "decimalItemType"  -> _validate_decimal(value)
      [] type_name = "integerItemType"  -> _validate_integer(value)
      [] type_name = "dateTimeItemType" -> _validate_datetime(value)
      [] type_name = "booleanItemType"  -> _validate_boolean(value)

_validate_period_type(required_type, context) ==
    IF required_type = "instant"
        THEN IF "instant" \notin DOMAIN context
                 THEN ValidationResult(FALSE,
                          <<Message("Context must have instant date for instant period type", NoArg)>>, <<>>)
                 ELSE ValidationResult(TRUE, <<>>, <<>>)
    ELSE IF required_type = "duration"
        THEN IF "startDate" \notin DOMAIN context \/ "endDate" \notin DOMAIN context
                 THEN ValidationResult(FALSE,
                          <<Message("Context must have start and end dates for duration period type", NoArg)>>, <<>>)
                 ELSE ValidationResult(TRUE, <<>>, <<>>)
    ELSE ValidationResult(TRUE, <<>>, <<>>)

_validate_balance(balance_type, value) ==
    IF ~DecimalAccepts(value)
        THEN ValidationResult(FALSE,
                 <<Message("Invalid numeric value for balance validation", NoArg)>>, <<>>)
    ELSE IF balance_type = "credit" /\ value.n < 0
        THEN ValidationResult(FALSE, <<Message("Credit balance should be positive", NoArg)>>, <<>>)
    ELSE IF balance_type = "debit" /\ value.n > 0
        THEN ValidationResult(FALSE, <<Message("Debit balance should be negative", NoArg)>>, <<>>)
    ELSE ValidationResult(TRUE, <<>>, <<>>)

ErrorsOf(result) == IF result.is_valid THEN <<>> ELSE result.errors

\* the checks of a known concept, stopping at a failed type check
CheckKnownConceptTypeFirst(info, concept_name, value, context) ==
    LET concept == info[concept_name]
        typeErrors == IF concept.type \in allowed_types
                          THEN ErrorsOf(TypeValidator(concept.type, value))
                          ELSE <<>>
        periodErrors == IF Truthy(concept.periodType) /\ typeErrors = <<>>
                            THEN ErrorsOf(_validate_period_type(concept.periodType, context))
                            ELSE <<>>
        errs == typeErrors \o periodErrors
    IN ValidationResult(errs = <<>>, errs, <<>>)
\* Lines 98-122: the checks of a concept found in the taxonomy.
CheckKnownConcept(info, concept_name, value, context) ==
    LET concept == info[concept_name]
        typeErrors == IF concept.type \in allowed_types
                          THEN ErrorsOf(TypeValidator(concept.type, value))
                          ELSE <<>>
        warns == IF concept.type \in allowed_types
                     THEN <<>>
                     ELSE <<Message("Unknown type for concept", concept_name)>>
        periodErrors == IF Truthy(concept.periodType)
                            THEN ErrorsOf(_validate_period_type(concept.periodType, context))
                            ELSE <<>>
        balanceErrors == IF Truthy(concept.balance)
                             THEN ErrorsOf(_validate_balance(concept.balance, value))
                             ELSE <<>>
        errs == typeErrors \o periodErrors \o balanceErrors
    IN ValidationResult(errs = <<>>, errs, warns)

\* Lines 95-96: the result for a concept that is not in concept_info.
NotFoundResultAsWarning(concept_name) ==
    ValidationResult(TRUE, <<>>, <<Message("not found in taxonomy", concept_name)>>)
NotFoundResult(concept_name) ==
    ValidationResult(FALSE, <<Message("not found in taxonomy", concept_name)>>, <<>>)

validate_concept(info, concept_name, value, context) ==
    IF concept_name \notin DOMAIN info
        THEN NotFoundResult(concept_name)
        ELSE CheckKnownConcept(info, concept_name, value, context)

\* ':' in text, for the entity texts the model draws
EntityTexts == {"http://example.com:123", "123", ""}
ContainsColon(text) == text \in {"http://example.com:123"}

\* validate_context without the comparison of the start and end dates
validate_context_unordered(context) ==
    LET has(k) == k \in DOMAIN context
        entityErrors ==
            IF ~has("entity")
                THEN <<Message("Context must have an entity identifier", NoArg)>>
                ELSE <<>>
        periodErrors ==
            IF has("instant")
                THEN IF has("startDate") \/ has("endDate")
                         THEN <<Message("Context cannot have both instant and duration dates", NoArg)>>
                         ELSE <<>>
            ELSE IF has("startDate") /\ has("endDate")
                THEN <<>>
            ELSE <<Message("Context must have either instant date or start/end dates", NoArg)>>
        emptyErrors ==
            IF has("entity") /\ ~Truthy(context.entity)
                THEN <<Message("Entity identifier cannot be empty", NoArg)>>
                ELSE <<>>
        raised == has("entity") /\ context.entity = None
        warns ==
            IF has("entity") /\ ~raised /\ ~ContainsColon(context.entity)
                THEN <<Message("Entity identifier should include scheme prefix", NoArg)>>
                ELSE <<>>
        errs == entityErrors \o periodErrors \o emptyErrors
    IN [raised |-> raised,
        result |-> IF raised THEN ValidationResult(TRUE, <<>>, <<>>)
                   ELSE ValidationResult(errs = <<>>, errs, warns)]

\* validate_context(context): context is the dict handed in, a function
\* over the keys it holds; dates are day numbers.  The result is
\* [raised, result]: ':' not in context['entity'] raises TypeError when
\* the entity is None.
validate_context(context) ==
    LET has(k) == k \in DOMAIN context
        entityErrors ==
            IF ~has("entity")
                THEN <<Message("Context must have an entity identifier", NoArg)>>
                ELSE <<>>
        periodErrors ==
            IF has("instant")
                THEN IF has("startDate") \/ has("endDate")
                         THEN <<Message("Context cannot have both instant and duration dates", NoArg)>>
                         ELSE <<>>
            ELSE IF has("startDate") /\ has("endDate")
                THEN IF context.startDate > context.endDate
                         THEN <<Message("Context period start date must be before end date", NoArg)>>
                         ELSE <<>>
            ELSE <<Message("Context must have either instant date or start/end dates", NoArg)>>
        emptyErrors ==
            IF has("entity") /\ ~Truthy(context.entity)
                THEN <<Message("Entity identifier cannot be empty", NoArg)>>
                ELSE <<>>
        raised == has("entity") /\ context.entity = None
        warns ==
            IF has("entity") /\ ~raised /\ ~ContainsColon(context.entity)
                THEN <<Message("Entity identifier should include scheme prefix", NoArg)>>
                ELSE <<>>
        errs == entityErrors \o periodErrors \o emptyErrors
    IN [raised |-> raised,
        result |-> IF raised THEN ValidationResult(TRUE, <<>>, <<>>)
                   ELSE ValidationResult(errs = <<>>, errs, warns)]

\* A measure "prefix:local" is [namespace |-> prefix, name |-> local]; a
\* measure without ':' has prefix None.
Measure(prefix, local) == ConceptKey(prefix, local)

_get_valid_currencies ==
    {"USD", "EUR", "GBP", "JPY", "CHF", "AUD", "CAD", "CNY", "HKD", "NZD",
     "SEK", "KRW", "SGD", "NOK", "MXN", "INR", "RUB", "ZAR", "TRY", "BRL"}

\* lines 237-249, the body of the loop for one measure
MeasureWarnings(measure) ==
    (IF measure.namespace = None
         THEN <<Message("Measure should include namespace prefix", measure)>>
         ELSE <<>>)
    \o (IF measure.namespace = "iso4217"
            THEN IF measure.name \notin _get_valid_currencies
                     THEN <<Message("Unknown currency code", measure)>>
                     ELSE <<>>
        ELSE IF measure = Measure("xbrli", "pure") THEN <<>>
        ELSE IF measure = Measure("xbrli", "shares") THEN <<>>
        ELSE <<Message("Non-standard unit measure", measure)>>)

RECURSIVE UnitWarnings(_, _)
UnitWarnings(measures, n) ==
    IF n = 0 THEN <<>>
    ELSE UnitWarnings(measures, n - 1) \o MeasureWarnings(measures[n])

\* dict.get(key, default)
DictGet(d, k, default) == IF k \in DOMAIN d THEN d[k] ELSE default

\* validate_unit without the check of a divide unit's lists
validate_unit_ignoring_divide(unit) ==
    IF DictGet(unit, "measures", <<>>) = <<>>
        THEN ValidationResult(FALSE,
                 <<Message("Unit must have at least one measure", NoArg)>>, <<>>)
    ELSE ValidationResult(TRUE, <<>>, UnitWarnings(unit.measures, Len(unit.measures)))

\* validate_unit with a result that warnings make invalid
validate_unit_warnings_block(unit) ==
    IF DictGet(unit, "measures", <<>>) = <<>>
        THEN ValidationResult(FALSE,
                 <<Message("Unit must have at least one measure", NoArg)>>, <<>>)
    ELSE LET warns == UnitWarnings(unit.measures, Len(unit.measures))
         IN ValidationResult(warns = <<>>, <<>>, warns)
\* validate_unit(unit): unit is the dict handed in; a list is falsy when
\* it is empty.
validate_unit(unit) ==
    IF DictGet(unit, "measures", <<>>) = <<>>
        THEN ValidationResult(FALSE,
                 <<Message("Unit must have at least one measure", NoArg)>>, <<>>)
    ELSE LET warns == UnitWarnings(unit.measures, Len(unit.measures))
             errs  == IF DictGet(unit, "divide", FALSE)
                         /\ ~(DictGet(unit, "numerator", <<>>) # <<>>
                              /\ DictGet(unit, "denominator", <<>>) # <<>>)
                          THEN <<Message("Divide units must have both numerator and denominator", NoArg)>>
                          ELSE <<>>
         IN ValidationResult(errs = <<>>, errs, warns)

\* _extract_period_type: documentation is <<>> for an element without
\* annotation/documentation and <<text>> for one with it.
_extract_period_type(documentation) ==
    IF documentation # <<>> /\ Contains(<<"p", "e", "r", "i", "o", "d", "T", "y", "p", "e">>, documentation[1])
        THEN IF Contains(<<"d", "u", "r", "a", "t", "i", "o", "n">>, lower(documentation[1]))
                 THEN "duration" ELSE "instant"
        ELSE None

\* _extract_concept_definitions: lines 58-80, for the first n elements of
\* the schema; an element is [name, type, documentation, balance], type
\* being the local part of its type attribute.
RECURSIVE _extract_concept_definitions(_, _, _, _)
_extract_concept_definitions(info, namespace, elements, n) ==
    IF n = 0 THEN info
    ELSE LET prev == _extract_concept_definitions(info, namespace, elements, n - 1)
             e    == elements[n]
         IN IF Truthy(e.name)
                THEN DictSet(prev, ConceptKey(namespace, e.name),
                             [name |-> e.name, type |-> e.type,
                              periodType |-> _extract_period_type(e.documentation),
                              balance |-> e.balance,
                              namespace |-> namespace])
                ELSE prev


(***************************************************************************)
(* TaxonomyValidator operations                                            *)
(***************************************************************************)
Element(name, type, documentation, balance) ==
    [name |-> name, type |-> type, documentation |-> documentation, balance |-> balance]

TestNamespace == "http://example.com/test"

\* test_validator.py sample_schema: the documentation texts are
\* "Period Type: duration" and "Period Type: instant"
SampleSchema ==
    <<Element("Revenue", "monetaryItemType",
              << <<"P", "e", "r", "i", "o", "d", " ", "T", "y", "p", "e", ":", " ", "d", "u", "r", "a", "t", "i", "o", "n">> >>, None),
      Element("Assets", "monetaryItemType",
              << <<"P", "e", "r", "i", "o", "d", " ", "T", "y", "p", "e", ":", " ", "i", "n", "s", "t", "a", "n", "t">> >>, None)>>

\* one concept of every type category, with and without balance
WideSchema ==
    <<Element("Liabilities", "monetaryItemType",
              << <<"p", "e", "r", "i", "o", "d", "T", "y", "p", "e", ":", " ", "i", "n", "s", "t", "a", "n", "t">> >>, "credit"),
      Element("Costs", "decimalItemType",
              << <<"p", "e", "r", "i", "o", "d", "T", "y", "p", "e", ":", " ", "D", "u", "r", "a", "t", "i", "o", "n">> >>, "debit"),
      Element("Name", "stringItemType", <<>>, None),
      Element("Count", "integerItemType", <<>>, None),
      Element("Approved", "booleanItemType", <<>>, None),
      Element("Signed", "dateTimeItemType",
              << <<"p", "e", "r", "i", "o", "d", "T", "y", "p", "e">> >>, None),
      Element("Odd", "fractionItemType", <<>>, ""),
      Element("", "stringItemType", <<>>, None)>>

Schemas == {SampleSchema, WideSchema}

ConceptNames ==
    {ConceptKey(TestNamespace, n) :
        n \in {"Revenue", "Assets", "Liabilities", "Costs", "Name", "Count",
               "Approved", "Signed", "Odd", "Missing"}}

TaxValues ==
    {TaxValue("int", "integer-numeral", 100),
     TaxValue("int", "integer-numeral", -5),
     TaxValue("float", "fraction-numeral", 1),
     TaxValue("Decimal", "fraction-numeral", -1),
     TaxValue("bool", "words", 0),
     TaxValue("datetime", "words", 0),
     TaxValue("str", "integer-numeral", 12),
     TaxValue("str", "fraction-numeral", -2),
     TaxValue("str", "binary-digit", 1),
     TaxValue("str", "boolean-token", 0),
     TaxValue("str", "iso-datetime", 0),
     TaxValue("str", "words", 0)}

\* the context dict handed to validate_concept
TaxContexts ==
    {[k \in keys |-> "2024-01-01"] :
        keys \in {{}, {"instant"}, {"startDate", "endDate"}, {"startDate"},
                  {"instant", "startDate", "endDate"}}}

NoTaxCall == [concept |-> NoArg, value |-> TaxValue("str", "words", 0),
              context |-> <<>>, unit |-> <<>>, raised |-> FALSE,
              result |-> ValidationResult(TRUE, <<>>, <<>>)]

load_taxonomy(schema) ==
    /\ concept_info' = _extract_concept_definitions(concept_info, TestNamespace,
                                                    schema, Len(schema))
    /\ tax_call' = NoTaxCall
    /\ tax_op' = "load"
    /\ UNCHANGED procVars
    /\ UNCHANGED calcVars

validate_concept_call(concept_name, value, context) ==
    /\ tax_call' = [NoTaxCall EXCEPT
                       !.concept = concept_name, !.value = value, !.context = context,
                       !.result = validate_concept(concept_info, concept_name, value, context)]
    /\ tax_op' = "validate_concept"
    /\ UNCHANGED concept_info
    /\ UNCHANGED procVars
    /\ UNCHANGED calcVars

validate_context_call(context) ==
    /\ tax_call' = [NoTaxCall EXCEPT
                       !.context = context,
                       !.raised = validate_context(context).raised,
                       !.result = validate_context(context).result]
    /\ tax_op' = "validate_context"
    /\ UNCHANGED concept_info
    /\ UNCHANGED procVars
    /\ UNCHANGED calcVars

validate_unit_call(unit) ==
    /\ tax_call' = [NoTaxCall EXCEPT !.unit = unit, !.result = validate_unit(unit)]
    /\ tax_op' = "validate_unit"
    /\ UNCHANGED concept_info
    /\ UNCHANGED procVars
    /\ UNCHANGED calcVars

\* the context dicts handed to validate_context: any subset of the keys,
\* dates as day numbers
ContextDictDays == {1, 2}
ContextDicts ==
    {[k \in keys |-> CASE k = "entity" -> entity
                       [] k = "instant" -> 1
                       [] k = "startDate" -> startDate
                       [] k = "endDate" -> endDate] :
        keys \in SUBSET {"entity", "instant", "startDate", "endDate"},
        entity \in EntityTexts \cup {None},
        startDate \in ContextDictDays,
        endDate \in ContextDictDays}

MeasureLists ==
    {<<>>,
     <<Measure("iso4217", "USD")>>,
     <<Measure("iso4217", "INVALID")>>,
     <<Measure("xbrli", "shares")>>,
     <<Measure("xbrli", "pure")>>,
     <<Measure(None, "USD")>>,
     <<Measure("custom", "thing")>>,
     <<Measure("iso4217", "USD"), Measure("xbrli", "shares")>>}

\* the unit dicts handed to validate_unit: any subset of the keys
UnitDicts ==
    {[k \in keys |-> CASE k = "measures" -> measures
                       [] k = "divide" -> divide
                       [] k = "numerator" -> numerator
                       [] k = "denominator" -> denominator] :
        keys \in SUBSET {"measures", "divide", "numerator", "denominator"},
        measures \in MeasureLists,
        divide \in BOOLEAN,
        numerator \in {<<>>, <<Measure("iso4217", "USD")>>},
        denominator \in {<<>>, <<Measure("xbrli", "shares")>>}}

(***************************************************************************)
(* XBRLProcessor.load_instance (src/processor.py)                          *)
(*                                                                         *)
(* A document is what the searches of the parse find in it:                *)
(*   [contexts : Seq(context element), units : Seq(unit element),          *)
(*    facts : Seq(element carrying a context reference)]                   *)
(* An element's text is "" when it has none.  A context element is         *)
(*   [id, identifier : <<>> or <<[scheme, text]>>,                         *)
(*    period : <<>> or <<[instant, startDate, endDate]>>, each child       *)
(*             <<>> when absent and <<text>> when present,                 *)
(*    unit : <<>> or <<the unit embedded in a numericContext>>]            *)
(* and a unit element is                                                   *)
(*   [id, measures : texts of its measure children,                        *)
(*    xbrli_measures : texts of the measures below it,                     *)
(*    divide : <<>> or <<[numerator, denominator]>>, texts of the          *)
(*             measures below each]                                        *)
(***************************************************************************)
ContextElem(id, identifier, period, unit) ==
    [id |-> id, identifier |-> identifier, period |-> period, unit |-> unit]
Identifier(scheme, text) == <<[scheme |-> scheme, text |-> text]>>
Period(instant, startDate, endDate) ==
    <<[instant |-> instant, startDate |-> startDate, endDate |-> endDate]>>
UnitElem(id, measures, xbrli_measures, divide) ==
    [id |-> id, measures |-> measures, xbrli_measures |-> xbrli_measures,
     divide |-> divide]
Divide(numerator, denominator) ==
    <<[numerator |-> numerator, denominator |-> denominator]>>
FactElem(concept, text, contextRef, unitRef) ==
    [concept |-> concept, text |-> text, sign |-> "", in_instance_namespace |-> FALSE,
     contextRef |-> contextRef, numericContext |-> None, unitRef |-> unitRef]
Document(cs, us, fs) == [contexts |-> cs, units |-> us, facts |-> fs]
NoDocument == Document(<<>>, <<>>, <<>>)

\* text.strip(), for the texts the documents of the model hold
strip(text) ==
    CASE text = " 2024-01-01 " -> "2024-01-01"
      [] text = " iso4217:USD " -> "iso4217:USD"
      [] text = " 100 " -> "100"
      [] text = " " -> ""
      [] OTHER -> text

\* the texts datetime.strptime accepts with '%Y-%m-%d' and with
\* '%Y-%m-%dT%H:%M:%S'
DateTexts == {"2024-01-01", "2024-12-31"}
DateTimeTexts == {"2024-01-01T12:00:00"}

\* _parse_date(date_str): [raised, value]; a datetime is held as its ISO
\* text
_parse_date(date_str) ==
    IF ~Truthy(date_str) THEN [raised |-> FALSE, value |-> None]
    ELSE IF strip(date_str) \in DateTexts \cup DateTimeTexts
        THEN [raised |-> FALSE, value |-> strip(date_str)]
        ELSE [raised |-> TRUE, value |-> None]

\* f"{scheme}:{text}"
SchemeAndText(scheme, text) ==
    CASE scheme = "http://entity.com" /\ text = "TEST" -> "http://entity.com:TEST"
      [] scheme = "" /\ text = "TEST" -> ":TEST"

\* _extract_entity, the definition at lines 430-436 (it replaces the one
\* at lines 398-420 of the same class)
_extract_entity(context) ==
    IF context.identifier # <<>>
        THEN LET entity_elem == context.identifier[1]
             IN IF Truthy(entity_elem.text)
                    THEN SchemeAndText(AttrGet(entity_elem.scheme, ""), entity_elem.text)
                    ELSE ""
        ELSE ""

\* the date of a child of the period: _parse_date(child.text) when the
\* child is there, else None
ChildDate(child) ==
    IF child # <<>> THEN _parse_date(child[1]) ELSE [raised |-> FALSE, value |-> None]

\* _extract_period reading the start and end dates beside the instant
_extract_period_all_children(context) ==
    IF context.period = <<>>
        THEN [raised |-> FALSE, instant |-> None, period_start |-> None, period_end |-> None]
    ELSE LET period == context.period[1]
         IN [raised |-> ChildDate(period.instant).raised
                            \/ ChildDate(period.startDate).raised
                            \/ ChildDate(period.endDate).raised,
             instant |-> ChildDate(period.instant).value,
             period_start |-> ChildDate(period.startDate).value,
             period_end |-> ChildDate(period.endDate).value]

\* _extract_period(context): [raised, instant, period_start, period_end],
\* the keyword arguments it returns with None for those it leaves out
_extract_period(context) ==
    IF context.period = <<>>
        THEN [raised |-> FALSE, instant |-> None, period_start |-> None, period_end |-> None]
    ELSE LET period == context.period[1]
         IN IF period.instant # <<>>
                THEN [raised |-> _parse_date(period.instant[1]).raised,
                      instant |-> _parse_date(period.instant[1]).value,
                      period_start |-> None, period_end |-> None]
                ELSE [raised |-> ChildDate(period.startDate).raised
                                     \/ ChildDate(period.endDate).raised,
                      instant |-> None,
                      period_start |-> ChildDate(period.startDate).value,
                      period_end |-> ChildDate(period.endDate).value]

\* XBRLContext.is_instant, XBRLContext.is_duration
is_instant(context) == context.instant # None
is_duration(context) == context.period_start # None /\ context.period_end # None

\* _parse_contexts, lines 381-396, for the first n context elements:
\* [raised, contexts]; a date that does not parse raises out of the loop
\* with the contexts stored so far.
RECURSIVE _parse_contexts(_, _, _)
_parse_contexts(ctxs, elems, n) ==
    IF n = 0 THEN [raised |-> FALSE, contexts |-> ctxs]
    ELSE LET prev == _parse_contexts(ctxs, elems, n - 1)
             context == elems[n]
             period_data == _extract_period(context)
         IN IF prev.raised THEN prev
            ELSE IF ~Truthy(context.id) THEN prev
            ELSE IF ~Truthy(_extract_entity(context)) THEN prev
            ELSE IF period_data.raised THEN [raised |-> TRUE, contexts |-> prev.contexts]
            ELSE [raised |-> FALSE,
                  contexts |-> DictSet(prev.contexts, context.id,
                                       XBRLContext(context.id, _extract_entity(context),
                                                   period_data.instant,
                                                   period_data.period_start,
                                                   period_data.period_end))]

\* [t.strip() for t in texts if t]
RECURSIVE StrippedTexts(_, _)
StrippedTexts(texts, n) ==
    IF n = 0 THEN <<>>
    ELSE IF Truthy(texts[n])
        THEN Append(StrippedTexts(texts, n - 1), strip(texts[n]))
        ELSE StrippedTexts(texts, n - 1)

XBRLUnitOf(id, measures, divide, numerator, denominator) ==
    [id |-> id, measures |-> measures, divide |-> divide,
     numerator |-> numerator, denominator |-> denominator]

\* _process_unit_element(unit, override_id): the units collection after it
_process_unit_element(us, unit, override_id) ==
    LET unit_id == IF Truthy(override_id) THEN override_id ELSE unit.id
        direct == StrippedTexts(unit.measures, Len(unit.measures))
        measures == IF direct = <<>>
                        THEN StrippedTexts(unit.xbrli_measures, Len(unit.xbrli_measures))
                        ELSE direct
        divide == unit.divide # <<>>
        numerator == IF divide
                         THEN StrippedTexts(unit.divide[1].numerator,
                                            Len(unit.divide[1].numerator))
                         ELSE <<>>
        denominator == IF divide
                           THEN StrippedTexts(unit.divide[1].denominator,
                                              Len(unit.divide[1].denominator))
                           ELSE <<>>
    IN IF ~Truthy(unit_id) THEN us
       ELSE IF measures # <<>> \/ numerator # <<>>
           THEN DictSet(us, unit_id,
                        XBRLUnitOf(unit_id, measures, divide, numerator, denominator))
           ELSE us

RECURSIVE StandaloneUnits(_, _, _)
StandaloneUnits(us, elems, n) ==
    IF n = 0 THEN us
    ELSE _process_unit_element(StandaloneUnits(us, elems, n - 1), elems[n], None)

\* the units embedded in the numericContext elements, stored under the
\* context's id
RECURSIVE EmbeddedUnits(_, _, _)
EmbeddedUnits(us, elems, n) ==
    IF n = 0 THEN us
    ELSE LET prev == EmbeddedUnits(us, elems, n - 1)
         IN IF Truthy(elems[n].id) /\ elems[n].unit # <<>>
                THEN _process_unit_element(prev, elems[n].unit[1], elems[n].id)
                ELSE prev

\* a _parse_units that adds to the units held
_parse_units_onto_held(doc) ==
    EmbeddedUnits(StandaloneUnits(units, doc.units, Len(doc.units)),
                  doc.contexts, Len(doc.contexts))
\* _parse_units(root): the units collection it leaves
_parse_units(doc) ==
    EmbeddedUnits(StandaloneUnits(EmptyDict, doc.units, Len(doc.units)),
                  doc.contexts, Len(doc.contexts))

\* _extract_fact_value(elem): <<>> for None, else <<value>>
_extract_fact_value(elem) ==
    LET value == strip(elem.text)
        signed(n) == IF elem.sign = "-" THEN -n ELSE n
    IN IF ~Truthy(value) THEN <<>>
       ELSE IF value = "100" THEN <<IntValue(signed(Amount(100)))>>
       ELSE IF value = "1.5" THEN <<FloatValue(signed(150))>>
       ELSE <<StrValue>>

\* Lines 593-598: the unit reference of a fact, from the attribute or, when
\* that is None or empty, from a unit stored under the context's id.
UnitRefOfAttribute(child, context_ref, us) == child.unitRef
UnitRefOf(child, context_ref, us) ==
    IF ~Truthy(child.unitRef) /\ context_ref \in DOMAIN us
        THEN context_ref ELSE child.unitRef

\* a _parse_facts that keeps an element whatever its context reference
RECURSIVE _parse_facts_any_context(_, _, _, _)
_parse_facts_any_context(ctxs, us, elems, n) ==
    IF n = 0 THEN <<>>
    ELSE LET prev == _parse_facts_any_context(ctxs, us, elems, n - 1)
             child == elems[n]
             context_ref == IF Truthy(child.contextRef) THEN child.contextRef
                            ELSE child.numericContext
             unit_ref == UnitRefOf(child, context_ref, us)
         IN IF child.in_instance_namespace THEN prev
            ELSE IF ~Truthy(context_ref) THEN prev
            ELSE IF _extract_fact_value(child) = <<>> THEN prev
            ELSE Append(prev, XBRLFact(child.concept, _extract_fact_value(child)[1],
                                       context_ref, unit_ref))

\* _parse_facts, lines 576-612, for the first n elements
RECURSIVE _parse_facts(_, _, _, _)
_parse_facts(ctxs, us, elems, n) ==
    IF n = 0 THEN <<>>
    ELSE LET prev == _parse_facts(ctxs, us, elems, n - 1)
             child == elems[n]
             context_ref == IF Truthy(child.contextRef) THEN child.contextRef
                            ELSE child.numericContext
             unit_ref == UnitRefOf(child, context_ref, us)
         IN IF child.in_instance_namespace THEN prev
            ELSE IF ~Truthy(context_ref) THEN prev
            ELSE IF context_ref \notin DOMAIN ctxs THEN prev
            ELSE IF _extract_fact_value(child) = <<>> THEN prev
            ELSE Append(prev, XBRLFact(child.concept, _extract_fact_value(child)[1],
                                       context_ref, unit_ref))

\* load_instance(instance_path) on a document that parses: the contexts
\* are added to those held, the units and then the facts are replaced; an
\* exception of _parse_contexts leaves the units and facts as they were
\* and is raised again as ValueError.
load_instance(doc) ==
    LET parsed == _parse_contexts(contexts, doc.contexts, Len(doc.contexts))
    IN /\ document' = doc
       /\ contexts' = parsed.contexts
       /\ IF parsed.raised
              THEN /\ proc_op' = "load_instance raised"
                   /\ UNCHANGED <<units, facts>>
              ELSE /\ proc_op' = "load_instance"
                   /\ units' = _parse_units(doc)
                   /\ facts' = _parse_facts(parsed.contexts, _parse_units(doc),
                                            doc.facts, Len(doc.facts))
       /\ errors' = <<>>
       /\ UNCHANGED calculation_tree
       /\ UNCHANGED pc
       /\ UNCHANGED calcVars
       /\ UNCHANGED taxVars

\* Documents
MaxContextElems == 2

TestIdentifier == Identifier("http://entity.com", "TEST")

\* an instant beside a start and an end date, a duration, a date that
\* does not parse, a context with neither identifier nor period, and a
\* numericContext holding a unit, an identifier without scheme and an
\* instant without text
ContextElems ==
    {ContextElem("ctx1", TestIdentifier,
                 Period(<<" 2024-01-01 ">>, <<"2024-01-01">>, <<"2024-12-31">>), <<>>),
     ContextElem("ctx2", TestIdentifier,
                 Period(<<>>, <<"2024-01-01">>, <<"2024-12-31">>), <<>>),
     ContextElem("ctx2", TestIdentifier, Period(<<"not-a-date">>, <<>>, <<>>), <<>>),
     ContextElem("ctx2", <<>>, <<>>, <<>>),
     ContextElem("ctx1", Identifier(None, "TEST"),
                 Period(<<"">>, <<"2024-01-01T12:00:00">>, <<>>),
                 <<UnitElem(None, <<"iso4217:USD">>, <<>>, <<>>)>>)}

\* a plain measure, a divide with both lists, a divide without
\* denominator, a plain measure beside a divide without numerator, a
\* measure without text, a unit without id
UnitElems ==
    {UnitElem("usd", <<" iso4217:USD ">>, <<>>, <<>>),
     UnitElem("eps", <<>>, <<"iso4217:USD", "xbrli:shares">>,
              Divide(<<"iso4217:USD">>, <<"xbrli:shares">>)),
     UnitElem("eps", <<>>, <<"iso4217:USD">>, Divide(<<"iso4217:USD">>, <<>>)),
     UnitElem("eps", <<"xbrli:pure">>, <<>>, Divide(<<>>, <<"">>)),
     UnitElem("usd", <<"">>, <<>>, <<>>),
     UnitElem(None, <<"xbrli:shares">>, <<>>, <<>>)}

StdContexts ==
    <<ContextElem("ctx1", TestIdentifier, Period(<<"2024-01-01">>, <<>>, <<>>), <<>>)>>
StdUnits == <<UnitElem("usd", <<" iso4217:USD ">>, <<>>, <<>>)>>
StdFacts ==
    <<FactElem("test:Fact", "100", "ctx1", "usd"),
      FactElem("test:Fact", " 100 ", "ctx2", None),
      FactElem("test:Text", "text", "missing", None)>>
OtherFacts ==
    <<[FactElem("test:Fact", "1.5", None, "eps") EXCEPT !.numericContext = "ctx1",
                                                       !.sign = "-"],
      FactElem("test:Fact", " ", "ctx1", "usd"),
      [FactElem("xbrli:measure", "text", "ctx1", None)
           EXCEPT !.in_instance_namespace = TRUE],
      FactElem("test:Fact", "100", None, None),
      [FactElem("test:Legacy", "100", None, None) EXCEPT !.numericContext = "missing"],
      FactElem("test:Text", "text", "missing", None)>>

\* a numericContext holding a unit, and facts that refer to it with no
\* unitRef, an empty unitRef and a unitRef of their own
LegacyContext ==
    ContextElem("ctx1", TestIdentifier, Period(<<"2024-01-01">>, <<>>, <<>>),
                <<UnitElem(None, <<"iso4217:USD">>, <<>>, <<>>)>>)
LegacyFacts ==
    <<[FactElem("test:Fact", "100", None, None) EXCEPT !.numericContext = "ctx1"],
      [FactElem("test:Fact", "1.5", None, "") EXCEPT !.numericContext = "ctx1"],
      FactElem("test:Fact", "100", "ctx1", "usd"),
      FactElem("test:Text", "text", "ctx1", None)>>

\* the documents: every list of context elements beside the standard
\* unit and facts, every unit element alone or after the standard unit,
\* and the other facts beside the standard context and unit
Documents ==
    {Document(cs, StdUnits, StdFacts) : cs \in SeqsUpTo(ContextElems, MaxContextElems)}
    \cup {Document(StdContexts, <<u>>, StdFacts) : u \in UnitElems}
    \cup {Document(StdContexts, StdUnits \o <<u>>, StdFacts) : u \in UnitElems}
    \cup {Document(StdContexts, us, OtherFacts) : us \in {<<>>, StdUnits}}
    \cup {Document(cs, <<>>, LegacyFacts) : cs \in {StdContexts, <<LegacyContext>>}}

(***************************************************************************)
(* iXBRLProcessor (src/inline_processor.py)                                *)
(*                                                                         *)
(* The text of an inline element is a sequence of one-character strings;   *)
(* a character outside ASCII is written as a name between angle brackets.  *)
(***************************************************************************)
Whitespace == {" "}
CurrencySymbols == {"$", "<euro>", "<pound>", "<yen>"}

\* text.lstrip(chars), text.rstrip(chars), text.strip(chars)
RECURSIVE lstrip(_, _)
lstrip(text, chars) ==
    IF text # <<>> /\ Head(text) \in chars THEN lstrip(Tail(text), chars) ELSE text

RECURSIVE rstrip(_, _)
rstrip(text, chars) ==
    IF text # <<>> /\ text[Len(text)] \in chars
        THEN rstrip(SubSeq(text, 1, Len(text) - 1), chars)
        ELSE text

StripChars(text, chars) == rstrip(lstrip(text, chars), chars)

\* text.replace(old, new) for a one-character old
RECURSIVE replace(_, _, _)
replace(text, old, new) ==
    IF text = <<>> THEN <<>>
    ELSE (IF Head(text) = old THEN new ELSE <<Head(text)>>)
             \o replace(Tail(text), old, new)

startswith(text, c) == text # <<>> /\ text[1] = c
endswith(text, c) == text # <<>> /\ text[Len(text)] = c

\* ' '.join(filter(None, pieces))
RECURSIVE JoinPieces(_, _)
JoinPieces(pieces, n) ==
    IF n = 0 THEN <<>>
    ELSE LET before == JoinPieces(pieces, n - 1)
         IN IF pieces[n] = <<>> THEN before
            ELSE IF before = <<>> THEN pieces[n]
            ELSE before \o <<" ">> \o pieces[n]

\* _get_element_text(elem): the element's own text and, for each child,
\* its tail and its flattened text, each trimmed, joined by single spaces.
\* An element is [text, tail, children]; the text and the tail are <<>>
\* when the element has none.
RECURSIVE _get_element_text(_)
RECURSIVE TextPieces(_, _)
TextPieces(children, n) ==
    IF n = 0 THEN <<>>
    ELSE TextPieces(children, n - 1)
             \o <<StripChars(children[n].tail, Whitespace),
                  _get_element_text(children[n])>>

_get_element_text(elem) ==
    LET result == <<StripChars(elem.text, Whitespace)>>
                      \o TextPieces(elem.children, Len(elem.children))
    IN JoinPieces(result, Len(result))

\* _apply_transform without the parenthetical negative
_apply_transform_keeping_parentheses(value, format) ==
    IF value = <<>> \/ ~Truthy(format) THEN value
    ELSE LET stripped == StripChars(value, Whitespace)
             cleaned ==
                 CASE format = "ixt:numdotdecimal" ->
                          replace(StripChars(stripped, CurrencySymbols), ",", <<>>)
                   [] format = "ixt:numcommadot" ->
                          replace(replace(StripChars(stripped, CurrencySymbols), ".", <<>>),
                                  ",", <<".">>)
                   [] OTHER -> stripped
             unpercent == IF endswith(cleaned, "%")
                              THEN SubSeq(cleaned, 1, Len(cleaned) - 1)
                              ELSE cleaned
         IN StripChars(unpercent, Whitespace)

\* _apply_transform(value, format)
_apply_transform(value, format) ==
    IF value = <<>> \/ ~Truthy(format) THEN value
    ELSE LET stripped == StripChars(value, Whitespace)
             cleaned ==
                 CASE format = "ixt:numdotdecimal" ->
                          replace(StripChars(stripped, CurrencySymbols), ",", <<>>)
                   [] format = "ixt:numcommadot" ->
                          replace(replace(StripChars(stripped, CurrencySymbols), ".", <<>>),
                                  ",", <<".">>)
                   [] OTHER -> stripped
             negated == IF startswith(cleaned, "(") /\ endswith(cleaned, ")")
                            THEN <<"-">> \o SubSeq(cleaned, 2, Len(cleaned) - 1)
                            ELSE cleaned
             unpercent == IF endswith(negated, "%")
                              THEN SubSeq(negated, 1, Len(negated) - 1)
                              ELSE negated
         IN StripChars(unpercent, Whitespace)

\* Decimal and int literals, read character by character
Digits == {"0", "1", "2", "3", "4", "5", "6", "7", "8", "9"}
DigitChar == <<"0", "1", "2", "3", "4", "5", "6", "7", "8", "9">>
DigitOf(c) == CHOOSE d \in 0..9 : DigitChar[d + 1] = c
IsDigit(c) == c \in Digits
IsDigits(text) == text # <<>> /\ \A i \in 1..Len(text) : text[i] \in Digits
Unsigned(text) == IF text # <<>> /\ text[1] \in {"+", "-"} THEN Tail(text) ELSE text

RECURSIVE NatOfDigits(_)
NatOfDigits(text) ==
    IF text = <<>> THEN 0
    ELSE 10 * NatOfDigits(SubSeq(text, 1, Len(text) - 1)) + DigitOf(text[Len(text)])

\* int(text): surrounding whitespace, a sign, decimal digits; any other
\* text raises ValueError
IntParsesText(text) == IsDigits(Unsigned(StripChars(text, Whitespace)))
IntOfText(text) ==
    LET t == StripChars(text, Whitespace)
    IN IF startswith(t, "-") THEN -NatOfDigits(Unsigned(t)) ELSE NatOfDigits(Unsigned(t))

\* str(n) and '%+d' % n
RECURSIVE NatText(_)
NatText(n) ==
    IF n < 10 THEN <<DigitChar[n + 1]>>
    ELSE NatText(n \div 10) \o <<DigitChar[(n % 10) + 1]>>
SignedIntText(n) == IF n < 0 THEN <<"-">> \o NatText(-n) ELSE <<"+">> \o NatText(n)

\* Decimal(text): a sign, digits with at most one point, an exponent
\* after 'e' or 'E'; any other text of the model raises InvalidOperation
\* (Decimal also reads 'inf', 'nan' and digits grouped by '_', which no
\* text of the model spells).  A Decimal is [sign, digits, exp]: the
\* digits of its coefficient and its exponent of ten.
ExponentAt(text) == {i \in 1..Len(text) : text[i] \in {"e", "E"}}
FirstOf(S) == CHOOSE x \in S : \A y \in S : x <= y
Mantissa(text) ==
    LET u == Unsigned(text)
    IN IF ExponentAt(u) = {} THEN u ELSE SubSeq(u, 1, FirstOf(ExponentAt(u)) - 1)
ExponentText(text) ==
    LET u == Unsigned(text)
    IN IF ExponentAt(u) = {} THEN <<"0">>
       ELSE SubSeq(u, FirstOf(ExponentAt(u)) + 1, Len(u))
PointAt(text) == {i \in 1..Len(text) : text[i] = "."}

DecimalParsesText(text) ==
    LET m == Mantissa(text)
    IN /\ Cardinality(PointAt(m)) <= 1
       /\ \A i \in (1..Len(m)) \ PointAt(m) : m[i] \in Digits
       /\ Len(m) > Cardinality(PointAt(m))
       /\ IsDigits(Unsigned(ExponentText(text)))

RECURSIVE StripLeadingZeros(_)
StripLeadingZeros(digits) ==
    IF Len(digits) > 1 /\ digits[1] = 0 THEN StripLeadingZeros(Tail(digits)) ELSE digits

DecimalOfText(text) ==
    LET m == Mantissa(text)
        coefficient == SelectSeq(m, IsDigit)
        fraction == IF PointAt(m) = {} THEN 0 ELSE Len(m) - FirstOf(PointAt(m))
    IN [sign |-> IF startswith(text, "-") THEN 1 ELSE 0,
        digits |-> StripLeadingZeros([i \in 1..Len(coefficient) |->
                                          DigitOf(coefficient[i])]),
        exp |-> IntOfText(ExponentText(text)) - fraction]

\* the precision of the decimal context the arithmetic runs in
Prec == 28

RECURSIVE Increment(_)
Increment(digits) ==
    IF digits = <<>> THEN <<1>>
    ELSE IF digits[Len(digits)] < 9
        THEN [digits EXCEPT ![Len(digits)] = @ + 1]
        ELSE Append(Increment(SubSeq(digits, 1, Len(digits) - 1)), 0)

\* the rounding of a result to prec digits, half to even
RoundTo(d, prec) ==
    IF Len(d.digits) <= prec THEN d
    ELSE LET kept == SubSeq(d.digits, 1, prec)
             rest == SubSeq(d.digits, prec + 1, Len(d.digits))
             up == \/ rest[1] > 5
                   \/ /\ rest[1] = 5
                      /\ \/ \E i \in 2..Len(rest) : rest[i] # 0
                         \/ kept[prec] % 2 = 1
         IN [sign |-> d.sign,
             digits |-> IF up THEN Increment(kept) ELSE kept,
             exp |-> d.exp + Len(rest)]

\* decimal_value * Decimal(10) ** scale_factor
ScaledBy(d, scale_factor) == RoundTo([d EXCEPT !.exp = @ + scale_factor], Prec)

\* Decimal.normalize(): no trailing zero in the coefficient, zero as 0
RECURSIVE normalize(_)
normalize(d) ==
    IF \A i \in 1..Len(d.digits) : d.digits[i] = 0
        THEN [sign |-> d.sign, digits |-> <<0>>, exp |-> 0]
    ELSE IF d.digits[Len(d.digits)] = 0
        THEN normalize([d EXCEPT !.digits = SubSeq(d.digits, 1, Len(d.digits) - 1),
                                 !.exp = @ + 1])
        ELSE d

\* str(Decimal): plain notation for an exponent of at most 0 with more
\* than -6 digits left of the point, scientific notation otherwise
DecimalStr(d) ==
    LET n == Len(d.digits)
        leftdigits == d.exp + n
        dotplace == IF d.exp <= 0 /\ leftdigits > -6 THEN leftdigits ELSE 1
        chars == [i \in 1..n |-> DigitChar[d.digits[i] + 1]]
        zeros(k) == [i \in 1..k |-> "0"]
        intpart == IF dotplace <= 0 THEN <<"0">>
                   ELSE IF dotplace >= n THEN chars \o zeros(dotplace - n)
                   ELSE SubSeq(chars, 1, dotplace)
        fracpart == IF dotplace <= 0 THEN <<".">> \o zeros(-dotplace) \o chars
                    ELSE IF dotplace >= n THEN <<>>
                    ELSE <<".">> \o SubSeq(chars, dotplace + 1, n)
        exppart == IF leftdigits = dotplace THEN <<>>
                   ELSE <<"E">> \o SignedIntText(leftdigits - dotplace)
    IN (IF d.sign = 1 THEN <<"-">> ELSE <<>>) \o intpart \o fracpart \o exppart

\* number_words and the tokens that stand for nothing
number_words ==
    << <<"z", "e", "r", "o">>, <<"o", "n", "e">>, <<"t", "w", "o">>,
       <<"t", "h", "r", "e", "e">>, <<"f", "o", "u", "r">>, <<"f", "i", "v", "e">>,
       <<"s", "i", "x">>, <<"s", "e", "v", "e", "n">>, <<"e", "i", "g", "h", "t">>,
       <<"n", "i", "n", "e">>, <<"t", "e", "n">> >>
NumberOfWord(word) == NatText((CHOOSE i \in 1..Len(number_words) : number_words[i] = word) - 1)
EmptyTokens == {<<"<emdash>">>, <<"<endash>">>, <<"-">>, <<"n", "/", "a">>}

\* _apply_scaling(value, scale), for a scale whose power of ten the
\* decimal context can hold
_apply_scaling(value, scale) ==
    LET lowered == lower(StripChars(value, Whitespace))
        worded == IF lowered \in Range(number_words) THEN NumberOfWord(lowered)
                  ELSE lowered
        clean_value == replace(worded, ",", <<>>)
    IN IF lowered = <<>> \/ lowered \in EmptyTokens THEN <<"0">>
       ELSE IF ~DecimalParsesText(clean_value) THEN worded
       ELSE IF ~IntParsesText(scale) THEN worded
       ELSE DecimalStr(normalize(ScaledBy(DecimalOfText(clean_value), IntOfText(scale))))

\* the value of an inline fact: a str
TextValue(text) == [type |-> "str", text |-> text]

\* An inline fact element is [tag, name, contextRef, unitRef, format,
\* scale, text, tail, children]; the scale is the attribute's text, <<>>
\* when the element has none.
\* _process_ixbrl_fact(elem): <<>> for None, else <<the fact>>
_process_ixbrl_fact(elem) ==
    IF ~(Truthy(elem.name) /\ Truthy(elem.contextRef)) THEN <<>>
    ELSE LET text == _get_element_text(elem)
             transformed == IF Truthy(elem.format) THEN _apply_transform(text, elem.format)
                            ELSE text
             value == IF elem.scale # <<>> /\ transformed # <<>>
                          THEN _apply_scaling(transformed, elem.scale)
                          ELSE transformed
         IN <<XBRLFact(elem.name, TextValue(value), elem.contextRef, elem.unitRef)>>

\* _parse_hidden_section, lines 73-85, for the first n contexts of the
\* hidden section: [raised, contexts]; a context is stored whatever its
\* entity.
RECURSIVE HiddenContexts(_, _, _)
HiddenContexts(ctxs, elems, n) ==
    IF n = 0 THEN [raised |-> FALSE, contexts |-> ctxs]
    ELSE LET prev == HiddenContexts(ctxs, elems, n - 1)
             context == elems[n]
             period_data == _extract_period(context)
         IN IF prev.raised THEN prev
            ELSE IF ~Truthy(context.id) THEN prev
            ELSE IF period_data.raised THEN [raised |-> TRUE, contexts |-> prev.contexts]
            ELSE [raised |-> FALSE,
                  contexts |-> DictSet(prev.contexts, context.id,
                                       XBRLContext(context.id, _extract_entity(context),
                                                   period_data.instant,
                                                   period_data.period_start,
                                                   period_data.period_end))]

\* _parse_hidden_section(hidden_elem): [raised, contexts, units]; the
\* units are reached only when no context raised
_parse_hidden_section(ctxs, us, hidden) ==
    LET parsed == HiddenContexts(ctxs, hidden.contexts, Len(hidden.contexts))
    IN [raised |-> parsed.raised,
        contexts |-> parsed.contexts,
        units |-> IF parsed.raised THEN us
                  ELSE StandaloneUnits(us, hidden.units, Len(hidden.units))]

RECURSIVE ProcessedFacts(_, _)
ProcessedFacts(elems, n) ==
    IF n = 0 THEN <<>>
    ELSE ProcessedFacts(elems, n - 1) \o _process_ixbrl_fact(elems[n])

\* _parse_ixbrl_facts(root): the facts list it leaves, the elements taken
\* tag by tag
_parse_ixbrl_facts(elems) ==
    LET OfTag(tag) == LET HasTag(e) == e.tag = tag IN SelectSeq(elems, HasTag)
        ordered == OfTag("nonFraction") \o OfTag("nonNumeric") \o OfTag("fraction")
    IN ProcessedFacts(ordered, Len(ordered))

\* An inline document is [hidden : <<>> or <<[contexts, units]>>,
\* contexts, units : the elements outside the hidden section, facts : the
\* inline fact elements]; the hidden section comes first in the document.
InlineDocument(hidden, cs, us, fs) ==
    [hidden |-> hidden, contexts |-> cs, units |-> us, facts |-> fs]
Hidden(cs, us) == <<[contexts |-> cs, units |-> us]>>
IxElem(tag, name, contextRef, unitRef, format, scale, text) ==
    [tag |-> tag, name |-> name, contextRef |-> contextRef, unitRef |-> unitRef,
     format |-> format, scale |-> scale, text |-> text, tail |-> <<>>,
     children |-> <<>>]

\* `if not self.contexts` (line 38) and `if not self.units` (line 43): the
\* whole document is searched while the collection holds nothing
ScansAlways(held) == TRUE
ScansContexts(held) == DOMAIN held = {}
ScansUnits(held) == DOMAIN held = {}

\* load_ixbrl_instance(instance_path) on a document that parses: the
\* hidden section adds to the contexts and units held; the whole document
\* is searched for contexts only while none is held and for units only
\* while none is held; the facts are replaced.  An exception leaves what
\* was stored before it and is raised again.
load_ixbrl_instance(doc) ==
    LET isHidden == doc.hidden # <<>>
        hid == IF isHidden THEN _parse_hidden_section(contexts, units, doc.hidden[1])
               ELSE [raised |-> FALSE, contexts |-> contexts, units |-> units]
        all_contexts == (IF isHidden THEN doc.hidden[1].contexts ELSE <<>>) \o doc.contexts
        all_units == (IF isHidden THEN doc.hidden[1].units ELSE <<>>) \o doc.units
        scanned == IF ~hid.raised /\ ScansContexts(hid.contexts)
                       THEN _parse_contexts(hid.contexts, all_contexts, Len(all_contexts))
                       ELSE [raised |-> hid.raised, contexts |-> hid.contexts]
    IN /\ document' = doc
       /\ contexts' = scanned.contexts
       /\ IF scanned.raised
              THEN /\ proc_op' = "load_ixbrl_instance raised"
                   /\ units' = hid.units
                   /\ UNCHANGED facts
              ELSE /\ proc_op' = "load_ixbrl_instance"
                   /\ units' = IF ScansUnits(hid.units)
                                   THEN StandaloneUnits(hid.units, all_units, Len(all_units))
                                   ELSE hid.units
                   /\ facts' = _parse_ixbrl_facts(doc.facts)
       /\ errors' = <<>>
       /\ UNCHANGED calculation_tree
       /\ UNCHANGED pc
       /\ UNCHANGED calcVars
       /\ UNCHANGED taxVars

\* Inline documents
\* the texts of the inline facts: those of test_ixbrl_transformations and
\* test_ixbrl_scale_handling, a currency symbol behind and one apart from
\* the number, words, tokens that stand for nothing, no text, and a
\* numeral of 29 digits
InlineTexts ==
    {<<"1", ",", "2", "3", "4", ".", "5", "6">>,
     <<"1", ".", "2", "3", "4", ",", "5", "6">>,
     <<"(", "1", "2", "3", "4", ".", "5", "6", ")">>,
     <<"1", "2", ".", "5", "%">>,
     <<"$", "1", ",", "2", "3", "4", ".", "5", "6">>,
     <<"<euro>", "1", ".", "2", "3", "4", ",", "5", "6">>,
     <<"3", "8", "6", ",", "0", "1", "7">>,
     <<"1", "0", "0", "0">>,
     <<" ", "1", "0", "0", "0", " ">>,
     <<"0", ".", "0", "0", "1", "2", "3", "4">>,
     <<"1", "0", "0", "$">>,
     <<"$", " ", "1", "0", "0">>,
     <<"(", "1", "2", ".", "5", "%", ")">>,
     <<"A", "B", "C">>,
     <<"a", "b", "c">>,
     <<"O", "n", "e">>,
     <<"N", "/", "A">>,
     <<"-">>,
     <<>>,
     <<"1", "2", "3", "4", "5", "6", "7", "8", "9", "0", "1", "2", "3", "4", "5", "6", "7", "8", "9", "0", "1", "2", "3", "4", "5", "6", "7", "8", "9">>,
     <<"0">>,
     <<"-", "1", "0", "0", "0">>,
     <<"1", "2", "3", "4", ".", "5">>,
     <<"I", "n", "c", ".">>}
Formats == {None, "ixt:numdotdecimal", "ixt:numcommadot", "ixt:numwordsen"}
Scales == {<<>>, <<"0">>, <<"6">>, <<"-", "3">>, <<"x">>, <<"1", ".", "5">>}

StdHidden == Hidden(StdContexts, StdUnits)
CompanyName ==
    IxElem("nonNumeric", "dei:EntityRegistrantName", "ctx1", None, None, <<>>, <<"I", "n", "c", ".">>)

\* one numeric fact of every text, format and scale, and a document whose
\* facts come in another order than their tags, one of them without name
InlineFactDocuments ==
    {InlineDocument(StdHidden, <<>>, <<>>,
                    <<IxElem("nonFraction", "us-gaap:Revenue", "ctx1", "usd",
                             format, scale, text)>>) :
         text \in InlineTexts, format \in Formats, scale \in Scales}
    \cup {InlineDocument(StdHidden, <<>>, <<>>,
                         <<CompanyName,
                           IxElem("nonFraction", None, "ctx1", "usd", None, <<"6">>,
                                  <<"1", "0", "0", "0">>),
                           IxElem("nonFraction", "us-gaap:Revenue", "ctx1", "usd",
                                  "ixt:numdotdecimal", <<"6">>, <<"3", "8", "6", ",", "0", "1", "7">>)>>)}

\* no hidden section, an empty one, or one holding a context element and
\* the standard unit, before a body with or without contexts and units
InlineContextDocuments ==
    {InlineDocument(hidden, cs, us, <<CompanyName>>) :
         hidden \in {<<>>, Hidden(<<>>, <<>>)}
                        \cup {Hidden(<<c>>, StdUnits) : c \in ContextElems},
         cs \in {<<>>, StdContexts},
         us \in {<<>>, <<UnitElem("eps", <<"xbrli:pure">>, <<>>, <<>>)>>}}

(***************************************************************************)
(* The loads parse by parse.  load_instance runs _parse_contexts,          *)
(* _parse_units, _parse_facts in this order (src/processor.py:307-317);    *)
(* load_ixbrl_instance runs _parse_hidden_section, the context scan, the   *)
(* unit scan and _parse_ixbrl_facts (src/inline_processor.py:32-49).  The  *)
(* parses of load_instance and the inline facts advance one element per    *)
(* step.                                                                   *)
(***************************************************************************)
\* the parse that follows a parse of load_instance
PhaseAfterFactsFirst(phase) ==
    CASE phase = "contexts" -> "facts"
      [] phase = "facts"    -> "units"
      [] phase = "units"    -> "idle"
PhaseAfter(phase) ==
    CASE phase = "contexts" -> "units"
      [] phase = "units"    -> "facts"
      [] phase = "facts"    -> "idle"

\* the parse that follows a parse of load_ixbrl_instance
InlinePhaseAfter(phase) ==
    CASE phase = "hidden"   -> "contexts"
      [] phase = "contexts" -> "units"
      [] phase = "units"    -> "facts"
      [] phase = "facts"    -> "idle"

\* the elements a parse of load_instance goes through
PhaseElements(doc, phase) ==
    CASE phase = "contexts" -> doc.contexts
      [] phase = "units"    -> doc.units \o doc.contexts
      [] phase = "facts"    -> doc.facts

\* the inline fact elements in the order _parse_ixbrl_facts takes them
OrderedInlineFacts(elems) ==
    LET OfTag(tag) == LET HasTag(e) == e.tag = tag IN SelectSeq(elems, HasTag)
    IN OfTag("nonFraction") \o OfTag("nonNumeric") \o OfTag("fraction")

Running(op, phase) ==
    [op |-> op, phase |-> phase, i |-> 0, done |-> {}, found |-> <<>>]

load_instance_begin(doc) ==
    /\ pc.op = "idle"
    /\ document' = doc
    /\ pc' = Running("load_instance", "contexts")
    /\ proc_op' = "load_instance running"
    /\ errors' = <<>>
    /\ UNCHANGED <<contexts, units, facts, calculation_tree>>
    /\ UNCHANGED calcVars
    /\ UNCHANGED taxVars

\* one pass of the loop of _parse_contexts (lines 381-396)
parse_context_element ==
    LET r == _parse_contexts(contexts, <<document.contexts[pc.i + 1]>>, 1)
    IN /\ pc.op = "load_instance" /\ pc.phase = "contexts"
       /\ pc.i < Len(document.contexts)
       /\ contexts' = r.contexts
       /\ IF r.raised
              THEN pc' = Idle /\ proc_op' = "load_instance raised"
              ELSE pc' = [pc EXCEPT !.i = @ + 1] /\ UNCHANGED proc_op
       /\ UNCHANGED <<units, facts, calculation_tree, errors, document>>
       /\ UNCHANGED calcVars
       /\ UNCHANGED taxVars

\* one unit of _parse_units: the standalone units (lines 460-470), then the
\* units embedded in numeric contexts (lines 472-486)
parse_unit_element ==
    LET n == Len(document.units)
    IN /\ pc.op = "load_instance" /\ pc.phase = "units"
       /\ pc.i < Len(PhaseElements(document, "units"))
       /\ units' = IF pc.i < n
                       THEN _process_unit_element(units, document.units[pc.i + 1], None)
                       ELSE EmbeddedUnits(units, <<document.contexts[pc.i + 1 - n]>>, 1)
       /\ pc' = [pc EXCEPT !.i = @ + 1]
       /\ UNCHANGED <<contexts, facts, calculation_tree, errors, proc_op, document>>
       /\ UNCHANGED calcVars
       /\ UNCHANGED taxVars

\* one pass of the loop of _parse_facts (lines 575-616): the fact joins the
\* local list facts_found
parse_fact_element ==
    /\ pc.op = "load_instance" /\ pc.phase = "facts"
    /\ pc.i < Len(document.facts)
    /\ pc' = [pc EXCEPT !.i = @ + 1,
                        !.found = @ \o _parse_facts(contexts, units,
                                                    <<document.facts[pc.i + 1]>>, 1)]
    /\ UNCHANGED <<contexts, units, facts, calculation_tree, errors, proc_op, document>>
    /\ UNCHANGED calcVars
    /\ UNCHANGED taxVars

\* a parse of load_instance returns and the next one starts: _parse_units
\* starts from an empty dict (line 457), _parse_facts from an empty list
\* (line 562) and ends with self.facts.extend(facts_found) (line 618)
load_instance_next_parse ==
    LET next == PhaseAfter(pc.phase)
    IN /\ pc.op = "load_instance"
       /\ pc.i = Len(PhaseElements(document, pc.phase))
       /\ units' = IF next = "units" THEN EmptyDict ELSE units
       /\ facts' = IF pc.phase = "facts" THEN facts \o pc.found
                   ELSE IF next = "facts" THEN <<>> ELSE facts
       /\ IF next = "idle"
              THEN pc' = Idle /\ proc_op' = "load_instance"
              ELSE /\ pc' = [pc EXCEPT !.phase = next, !.i = 0,
                                       !.done = @ \cup {pc.phase}]
                   /\ UNCHANGED proc_op
       /\ UNCHANGED <<contexts, calculation_tree, errors, document>>
       /\ UNCHANGED calcVars
       /\ UNCHANGED taxVars

load_ixbrl_instance_begin(doc) ==
    /\ pc.op = "idle"
    /\ document' = doc
    /\ pc' = Running("load_ixbrl_instance", "hidden")
    /\ proc_op' = "load_ixbrl_instance running"
    /\ errors' = <<>>
    /\ UNCHANGED <<contexts, units, facts, calculation_tree>>
    /\ UNCHANGED calcVars
    /\ UNCHANGED taxVars

\* the parses of load_ixbrl_instance before the facts (lines 32-45), each
\* as one step; _parse_ixbrl_facts starts from an empty list (line 99)
inline_parse ==
    LET isHidden == document.hidden # <<>>
        all_contexts == (IF isHidden THEN document.hidden[1].contexts ELSE <<>>)
                            \o document.contexts
        all_units == (IF isHidden THEN document.hidden[1].units ELSE <<>>)
                            \o document.units
        r == CASE pc.phase = "hidden" ->
                      IF isHidden
                          THEN _parse_hidden_section(contexts, units, document.hidden[1])
                          ELSE [raised |-> FALSE, contexts |-> contexts, units |-> units]
               [] pc.phase = "contexts" ->
                      IF ScansContexts(contexts)
                          THEN [raised |-> _parse_contexts(contexts, all_contexts,
                                                           Len(all_contexts)).raised,
                                contexts |-> _parse_contexts(contexts, all_contexts,
                                                             Len(all_contexts)).contexts,
                                units |-> units]
                          ELSE [raised |-> FALSE, contexts |-> contexts, units |-> units]
               [] pc.phase = "units" ->
                      [raised |-> FALSE, contexts |-> contexts,
                       units |-> IF ScansUnits(units)
                                     THEN StandaloneUnits(units, all_units, Len(all_units))
                                     ELSE units]
        next == InlinePhaseAfter(pc.phase)
    IN /\ pc.op = "load_ixbrl_instance"
       /\ pc.phase \in {"hidden", "contexts", "units"}
       /\ contexts' = r.contexts
       /\ units' = r.units
       /\ IF r.raised
              THEN /\ pc' = Idle /\ proc_op' = "load_ixbrl_instance raised"
                   /\ UNCHANGED facts
              ELSE /\ pc' = [pc EXCEPT !.phase = next, !.done = @ \cup {pc.phase}]
                   /\ facts' = IF next = "facts" THEN <<>> ELSE facts
                   /\ UNCHANGED proc_op
       /\ UNCHANGED <<calculation_tree, errors, document>>
       /\ UNCHANGED calcVars
       /\ UNCHANGED taxVars

\* one element of _parse_ixbrl_facts (lines 113-117), appended to self.facts
parse_ixbrl_fact_element ==
    LET ordered == OrderedInlineFacts(document.facts)
    IN /\ pc.op = "load_ixbrl_instance" /\ pc.phase = "facts"
       /\ pc.i < Len(ordered)
       /\ facts' = facts \o _process_ixbrl_fact(ordered[pc.i + 1])
       /\ pc' = [pc EXCEPT !.i = @ + 1]
       /\ UNCHANGED <<contexts, units, calculation_tree, errors, proc_op, document>>
       /\ UNCHANGED calcVars
       /\ UNCHANGED taxVars

load_ixbrl_instance_end ==
    /\ pc.op = "load_ixbrl_instance" /\ pc.phase = "facts"
    /\ pc.i = Len(OrderedInlineFacts(document.facts))
    /\ pc' = Idle
    /\ proc_op' = "load_ixbrl_instance"
    /\ UNCHANGED <<contexts, units, facts, calculation_tree, errors, document>>
    /\ UNCHANGED calcVars
    /\ UNCHANGED taxVars

\* the documents loaded parse by parse
PhaseDocuments ==
    {Document(StdContexts, StdUnits, StdFacts),
     Document(<<>>, <<>>, StdFacts),
     Document(<<ContextElem("ctx2", TestIdentifier,
                            Period(<<>>, <<"2024-01-01">>, <<"2024-12-31">>), <<>>),
                ContextElem("ctx1", TestIdentifier, Period(<<"2024-01-01">>, <<>>, <<>>),
                            <<UnitElem(None, <<"iso4217:USD">>, <<>>, <<>>)>>)>>,
              <<UnitElem("eps", <<"xbrli:pure">>, <<>>, <<>>)>>,
              StdFacts \o OtherFacts),
     Document(StdContexts \o
                  <<ContextElem("ctx2", TestIdentifier,
                                Period(<<"not-a-date">>, <<>>, <<>>), <<>>)>>,
              StdUnits, StdFacts)}

InlinePhaseDocuments ==
    {InlineDocument(StdHidden, <<>>, <<>>,
                    <<CompanyName,
                      IxElem("nonFraction", "us-gaap:Revenue", "ctx1", "usd",
                             "ixt:numdotdecimal", <<"6">>, <<"1", "0">>)>>),
     InlineDocument(<<>>, StdContexts, StdUnits, <<CompanyName>>),
     InlineDocument(Hidden(<<ContextElem("ctx2", TestIdentifier,
                                         Period(<<"not-a-date">>, <<>>, <<>>), <<>>)>>,
                           StdUnits),
                    StdContexts, <<>>, <<CompanyName>>),
     InlineDocument(Hidden(StdContexts, <<>>),
                    <<ContextElem("ctx2", TestIdentifier,
                                  Period(<<>>, <<"2024-01-01">>, <<"2024-12-31">>), <<>>)>>,
                    StdUnits, <<CompanyName>>),
     InlineDocument(Hidden(<<>>, StdUnits), StdContexts,
                    <<UnitElem("eps", <<"xbrli:pure">>, <<>>, <<>>)>>, <<CompanyName>>)}

(***************************************************************************)
(* XBRLProcessor.load_calculation (src/processor.py)                       *)
(***************************************************************************)
\* _process_calculation_links: the relationships the processor holds for
\* validation once it has run on calculation_tree.  The method returns
\* when the tree is None and is otherwise an empty body: nothing is stored.
_process_calculation_links(tree) == <<>>

load_calculation(doc) ==
    /\ calculation_tree' = <<doc>>
    /\ errors' = <<>>
    /\ proc_op' = "load_calculation"
    /\ UNCHANGED <<contexts, units, facts, document>>
    /\ UNCHANGED pc
    /\ UNCHANGED calcVars
    /\ UNCHANGED taxVars

\* processor.facts = [...]  (test_calculation_integration)
set_facts(fs) ==
    /\ facts' = fs
    /\ errors' = <<>>
    /\ proc_op' = "populate"
    /\ UNCHANGED <<contexts, units, calculation_tree, document>>
    /\ UNCHANGED pc
    /\ UNCHANGED calcVars
    /\ UNCHANGED taxVars

\* processor.facts[i].value = v
set_fact_value(i, v) ==
    /\ i \in 1..Len(facts)
    /\ facts' = [facts EXCEPT ![i].value = v]
    /\ errors' = <<>>
    /\ proc_op' = "populate"
    /\ UNCHANGED <<contexts, units, calculation_tree, document>>
    /\ UNCHANGED pc
    /\ UNCHANGED calcVars
    /\ UNCHANGED taxVars

\* The facts of the processor grouped as validate_calculations takes them:
\* context id -> {concept: value}, contexts in order of first appearance.
RECURSIVE FactsByContext(_, _)
FactsByContext(fs, n) ==
    IF n = 0 THEN <<>>
    ELSE LET prev == FactsByContext(fs, n - 1)
             f    == fs[n]
             old  == IF f.context_ref \in Keys(prev)
                         THEN Get(prev, f.context_ref) ELSE EmptyDict
         IN Put(prev, f.context_ref, DictSet(old, f.concept, f.value))

\* processor.validate_calculations(), as the tests call it: calculation
\* validation over the relationships the processor holds and its facts.
ProcessorValidateCalculations ==
    LET rels == IF calculation_tree = <<>> THEN <<>>
                ELSE _process_calculation_links(calculation_tree[1])
        byCtx == FactsByContext(facts, Len(facts))
    IN validate_calculations(rels, <<>>, byCtx, Len(byCtx))

IntegrationDocs == {SampleLinkbase, IntegrationLinkbase, CycleLinkbase}

OptionalFact(concept, amounts) ==
    {<<>>} \cup {<<XBRLFact(concept, IntValue(Amount(a)), "ctx1", None)>> : a \in amounts}

IntegrationFacts ==
    {ni \o rev \o ex :
        ni \in OptionalFact("NetIncome", {400, 500}),
        rev \in OptionalFact("Revenue", {1000}),
        ex \in OptionalFact("Expenses", {500})}

(***************************************************************************)
(* Specifications                                                          *)
(***************************************************************************)
Init ==
    /\ contexts = EmptyDict
    /\ units = EmptyDict
    /\ facts = <<>>
    /\ calculation_tree = <<>>
    /\ errors = <<>>
    /\ proc_op = "init"
    /\ document = NoDocument
    /\ pc = Idle
    /\ calc_relationships = <<>>
    /\ calculation_roles = <<>>
    /\ calc_call = NoCall
    /\ calc_op = "init"
    /\ concept_info = EmptyDict
    /\ tax_call = NoTaxCall
    /\ tax_op = "init"

\* XBRLProcessor: population of the collections and validate()
Next ==
    \/ \E id \in ContextIds : update_contexts(id)
    \/ \E id \in UnitIds : set_unit(id)
    \/ \E fact \in FactInputs : extend_facts(fact)
    \/ validate

Spec == Init /\ [][Next]_vars

\* CalculationValidator: loads and validate_calculations
NextCalc ==
    \/ \E doc \in CalcDocs : load_calculation_linkbase(doc)
    \/ \E cfacts \in CalcFactsInputs : validate_calculations_call(cfacts)

SpecCalc == Init /\ [][NextCalc]_vars

\* CalculationValidator: loads and get_calculation_network
NextLoad ==
    \/ \E doc \in LinkbaseDocs : load_calculation_linkbase(doc)
    \/ \E role \in RoleQueries : get_calculation_network_call(role)

SpecLoad == Init /\ [][NextLoad]_vars

\* TaxonomyValidator: taxonomy loads and validate_concept
NextTax ==
    \/ \E schema \in Schemas : load_taxonomy(schema)
    \/ \E name \in ConceptNames, value \in TaxValues, context \in TaxContexts :
           validate_concept_call(name, value, context)
    \/ \E context \in ContextDicts : validate_context_call(context)
    \/ \E unit \in UnitDicts : validate_unit_call(unit)

SpecTax == Init /\ [][NextTax]_vars


\* XBRLProcessor: load_calculation and the facts of the integration tests
NextIntegration ==
    \/ \E doc \in IntegrationDocs : load_calculation(doc)
    \/ \E fs \in IntegrationFacts : set_facts(fs)
    \/ \E v \in {IntValue(Amount(400)), IntValue(Amount(500))} : set_fact_value(1, v)
    \/ \E id \in ContextIds : update_contexts(id)
    \/ validate

SpecIntegration == Init /\ [][NextIntegration]_vars

\* XBRLProcessor: document loads
NextExtract ==
    \/ \E doc \in Documents : load_instance(doc)
    \/ \E doc \in InlineContextDocuments : load_ixbrl_instance(doc)

SpecExtract == Init /\ [][NextExtract]_vars

\* iXBRLProcessor: inline facts
NextInline ==
    \/ \E doc \in InlineFactDocuments : load_ixbrl_instance(doc)

SpecInline == Init /\ [][NextInline]_vars

\* XBRLProcessor and iXBRLProcessor: document loads, parse by parse
NextPhases ==
    \/ \E doc \in PhaseDocuments : load_instance_begin(doc)
    \/ parse_context_element
    \/ parse_unit_element
    \/ parse_fact_element
    \/ load_instance_next_parse
    \/ \E doc \in InlinePhaseDocuments : load_ixbrl_instance_begin(doc)
    \/ inline_parse
    \/ parse_ixbrl_fact_element
    \/ load_ixbrl_instance_end

SpecPhases == Init /\ [][NextPhases]_vars

\* CalculationValidator: validate_calculations over cyclic, multi-role data
CycleDocs == {SampleLinkbase, CycleLinkbase, CycleSecondRoleLinkbase}

NextCycle ==
    \/ \E doc \in CycleDocs : load_calculation_linkbase(doc)
    \/ \E cfacts \in CalcFactsInputs : validate_calculations_call(cfacts)

SpecCycle == Init /\ [][NextCycle]_vars

\* The three validators side by side, each over a populated model
ValidatorFacts ==
    {XBRLFact("test:Fact", IntValue(Amount(100)), "ctx1", "usd"),
     XBRLFact("test:Text", StrValue, "missing", "usd")}

ValidatorCalcDocs == {SampleLinkbase, CycleLinkbase}

ValidatorCalcFacts ==
    {<<[key |-> "ctx1",
        val |-> [c \in {"NetIncome", "Revenue", "Expenses"} |-> DecimalValue(2)]]>>,
     <<[key |-> "ctx1", val |-> [c \in {"NetIncome"} |-> DecimalValue(1)]],
       [key |-> "ctx2", val |-> [c \in {"Revenue"} |-> StrValue]]>>}

ValidatorRoles == {None, RoleNetIncome}

ValidatorConcepts ==
    {ConceptKey(TestNamespace, "Revenue"), ConceptKey(TestNamespace, "Missing")}

ValidatorContextDicts == {[k \in {"startDate"} |-> 1]}

ValidatorUnitDicts == {[k \in {"measures"} |-> <<Measure("iso4217", "INVALID")>>]}

PopulateStep ==
    \/ \E id \in ContextIds : update_contexts(id)
    \/ \E fact \in ValidatorFacts : extend_facts(fact)
    \/ \E doc \in ValidatorCalcDocs : load_calculation_linkbase(doc)
    \/ load_taxonomy(SampleSchema)

ValidatorStep ==
    \/ validate
    \/ \E cfacts \in ValidatorCalcFacts : validate_calculations_call(cfacts)
    \/ \E role \in ValidatorRoles : get_calculation_network_call(role)
    \/ \E role \in ValidatorRoles : get_calculation_roots_call(role)
    \/ \E name \in ValidatorConcepts :
           validate_concept_call(name, TaxValue("str", "words", 0),
                                 [k \in {"instant"} |-> "2024-01-01"])
    \/ \E context \in ValidatorContextDicts : validate_context_call(context)
    \/ \E unit \in ValidatorUnitDicts : validate_unit_call(unit)

NextValidators ==
    \/ PopulateStep
    \/ ValidatorStep

SpecValidators == Init /\ [][NextValidators]_vars


(***************************************************************************)
(* XBRLProcessor.validate: properties                                      *)
(***************************************************************************)
DiagnosticsFor(i, kinds) ==
    {k \in 1..Len(errors) : errors[k].fact = i /\ errors[k].kind \in kinds}

\* C1: the list returned by validate() holds a missing-context diagnostic
\* for a fact if and only if the fact's context_ref is not a key of the
\* contexts collection.
C1_MissingContextIff ==
    proc_op = "validate" =>
        \A i \in 1..Len(facts) :
            DiagnosticsFor(i, {"MissingContext"}) # {}
                <=> facts[i].context_ref \notin DOMAIN contexts

\* validate() has run on a fact with a known context and on one without
C1_Witness ==
    /\ proc_op = "validate"
    /\ \E i, j \in 1..Len(facts) :
          /\ facts[i].context_ref \in DOMAIN contexts
          /\ facts[j].context_ref \notin DOMAIN contexts
          /\ DiagnosticsFor(j, {"MissingContext"}) # {}

\* C2: validate() reports a missing-unit diagnostic for a fact if and only
\* if its value is numeric (an int or a float) and its unit_ref is absent
\* or not a key of the units collection.
C2_MissingUnitIff ==
    proc_op = "validate" =>
        \A i \in 1..Len(facts) :
            DiagnosticsFor(i, {"MissingUnitRef", "MissingUnit"}) # {}
                <=> /\ facts[i].value.type \in {"int", "float"}
                    /\ \/ facts[i].unit_ref \in {None, ""}
                       \/ facts[i].unit_ref \notin DOMAIN units

\* validate() has run on a float with a resolvable unit (no diagnostic) and
\* on a number with an unresolved unit (diagnostic)
C2_Witness ==
    /\ proc_op = "validate"
    /\ \E i, j \in 1..Len(facts) :
          /\ facts[i].value.type = "float"
          /\ facts[i].unit_ref \in DOMAIN units
          /\ DiagnosticsFor(i, {"MissingUnitRef", "MissingUnit"}) = {}
          /\ facts[j].value.type \in {"int", "float"}
          /\ facts[j].unit_ref = "missing"
          /\ DiagnosticsFor(j, {"MissingUnit"}) # {}

\* C3: a non-numeric fact that carries a unit reference adds no entry to
\* the list returned by validate(): the list holds exactly the
\* missing-context and the missing-unit diagnostics (two entries for the
\* four facts of test_validation).
C3_NonNumericUnitAddsNoEntry ==
    proc_op = "validate" =>
        Len(errors) =
            Cardinality({i \in 1..Len(facts) :
                            facts[i].context_ref \notin DOMAIN contexts})
          + Cardinality({i \in 1..Len(facts) :
                            /\ facts[i].value.type \in {"int", "float"}
                            /\ \/ facts[i].unit_ref \in {None, ""}
                               \/ facts[i].unit_ref \notin DOMAIN units})

(***************************************************************************)
(* CalculationValidator.validate_calculations: properties                  *)
(***************************************************************************)
\* every value of the facts mapping is a Decimal, as the signature declares
AllDecimal(cfacts_by_ctx) ==
    \A i \in 1..Len(cfacts_by_ctx) :
        \A c \in DOMAIN cfacts_by_ctx[i].val :
            cfacts_by_ctx[i].val[c].type = "Decimal"

RECURSIVE WeightedSum(_, _, _)
WeightedSum(relationships, m, n) ==
    IF n = 0 THEN 0
    ELSE WeightedSum(relationships, m, n - 1)
             + m[relationships[n].child].n * relationships[n].weight

CalcDiagnosticsFor(parent, context_id) ==
    {k \in 1..Len(calc_call.errors) :
        /\ calc_call.errors[k].parent = parent
        /\ calc_call.errors[k].context = context_id}

AbsentChildren(relationships, m) ==
    {relationships[j].child : j \in {j \in 1..Len(relationships) :
                                       relationships[j].child \notin DOMAIN m}}

\* C4: whenever validate_calculations returns its list, for every context
\* and every parent that has a value there and all of whose children have
\* values there (the call that raises is C6's subject), it produces exactly
\* one calculation-error diagnostic (with the expected sum of child value
\* x weight and the actual parent value) when |parent - expected| > 0.01
\* and no diagnostic for that parent and context otherwise.
C4_CalculationErrorIffOutsideTolerance ==
    (calc_op = "validate" /\ ~calc_call.raised) =>
        \A i \in 1..Len(calc_call.facts), e \in 1..Len(calc_relationships) :
            LET m == calc_call.facts[i].val
                parent == calc_relationships[e].key
                rs == calc_relationships[e].val
                ds == CalcDiagnosticsFor(parent, calc_call.facts[i].key)
            IN (parent \in DOMAIN m /\ AbsentChildren(rs, m) = {}) =>
                  LET expected == WeightedSum(rs, m, Len(rs))
                  IN IF Abs(m[parent].n - expected) > Tolerance
                         THEN /\ Cardinality(ds) = 1
                              /\ \A k \in ds :
                                    /\ calc_call.errors[k].kind = "CalculationError"
                                    /\ calc_call.errors[k].expected = expected
                                    /\ calc_call.errors[k].actual = m[parent].n
                         ELSE ds = {}

\* a call over two contexts that reported a calculation error for a parent
\* whose children are all present
C4_Witness ==
    /\ calc_op = "validate"
    /\ AllDecimal(calc_call.facts)
    /\ Len(calc_call.facts) = 2
    /\ \E k \in 1..Len(calc_call.errors) :
          /\ calc_call.errors[k].kind = "CalculationError"
          /\ calc_call.errors[k].context = "ctx2"
          /\ Cardinality(calc_call.errors[k].children) = 2

\* C5: whenever validate_calculations returns its list, when a parent has a
\* value in a context and at least one of its children has none (the call
\* that raises is C6's subject), it produces exactly one
\* missing-children diagnostic for that parent and context, listing exactly
\* the absent children, and no calculation-error diagnostic.
C5_MissingChildrenOnly ==
    (calc_op = "validate" /\ ~calc_call.raised) =>
        \A i \in 1..Len(calc_call.facts), e \in 1..Len(calc_relationships) :
            LET m == calc_call.facts[i].val
                parent == calc_relationships[e].key
                rs == calc_relationships[e].val
                ds == CalcDiagnosticsFor(parent, calc_call.facts[i].key)
            IN (parent \in DOMAIN m /\ AbsentChildren(rs, m) # {}) =>
                  /\ Cardinality(ds) = 1
                  /\ \A k \in ds :
                        /\ calc_call.errors[k].kind = "MissingChildren"
                        /\ Range(calc_call.errors[k].missing) = AbsentChildren(rs, m)

\* a call that reported missing children for a parent one of whose
\* children is present with a value that does not add up
C5_Witness ==
    /\ calc_op = "validate"
    /\ AllDecimal(calc_call.facts)
    /\ \E k \in 1..Len(calc_call.errors), e \in 1..Len(calc_relationships) :
          /\ calc_call.errors[k].kind = "MissingChildren"
          /\ calc_relationships[e].key = calc_call.errors[k].parent
          /\ Len(calc_call.errors[k].missing) < Len(calc_relationships[e].val)
          /\ Len(calc_relationships[e].val) >= 2

\* C6: validate_calculations always returns a list of diagnostics and never
\* raises, whatever the values of the facts mapping.
C6_NeverRaises ==
    calc_op = "validate" => ~calc_call.raised

(***************************************************************************)
(* XBRLProcessor.load_calculation: properties                              *)
(***************************************************************************)
IntegrationFactsWith(netIncome) ==
    <<XBRLFact("NetIncome", IntValue(Amount(netIncome)), "ctx1", None),
      XBRLFact("Revenue", IntValue(Amount(1000)), "ctx1", None),
      XBRLFact("Expenses", IntValue(Amount(500)), "ctx1", None)>>

\* C7: once the processor has loaded the linkbase NetIncome -> Revenue (+1),
\* NetIncome -> Expenses (-1), its calculation validation returns no
\* diagnostic for NetIncome=500, Revenue=1000, Expenses=500, at least one
\* for NetIncome=400, and a missing-children one when Expenses is absent.
C7_LoadedLinkbaseEffective ==
    calculation_tree = <<IntegrationLinkbase>> =>
        LET r == ProcessorValidateCalculations
        IN /\ ~r.raised
           /\ facts = IntegrationFactsWith(500) => r.errors = <<>>
           /\ facts = IntegrationFactsWith(400) => r.errors # <<>>
           /\ facts = SubSeq(IntegrationFactsWith(500), 1, 2) =>
                  \E k \in 1..Len(r.errors) : r.errors[k].kind = "MissingChildren"


(***************************************************************************)
(* CalculationValidator.load_calculation_linkbase and                      *)
(* get_calculation_network: properties                                     *)
(***************************************************************************)
\* every relationship held now is held after the step, under the same key
\* and at the same position of that key's list
RelationshipsKept ==
    \A e \in 1..Len(calc_relationships) :
        LET k   == calc_relationships[e].key
            old == calc_relationships[e].val
        IN /\ k \in Keys(calc_relationships')
           /\ Len(Get(calc_relationships', k)) >= Len(old)
           /\ SubSeq(Get(calc_relationships', k), 1, Len(old)) = old

ParentKeyed(rels) ==
    \A e \in 1..Len(rels) :
        \A j \in 1..Len(rels[e].val) : rels[e].val[j].parent = rels[e].key

\* C8: load_calculation_linkbase is additive over any sequence of loads:
\* every relationship held before a load is held after it under the same
\* parent key and at the same position, new ones are only appended, and
\* every relationship stored under key p has parent p.
C8_LoadsAreAdditive ==
    [][RelationshipsKept /\ ParentKeyed(calc_relationships')]_vars

\* after a load, a parent holds relationships of two roles
C8_Witness ==
    /\ calc_op = "load"
    /\ \E e \in 1..Len(calc_relationships) :
          \E i, j \in 1..Len(calc_relationships[e].val) :
              /\ i < j
              /\ calc_relationships[e].val[i].role # calc_relationships[e].val[j].role

\* the relationships of a list that are in the role (all when role is None)
InRole(relationships, role) ==
    SelectSeq(relationships, LAMBDA r : role = None \/ r.role = role)

\* C9: get_calculation_network(role) returns, for each parent with at
\* least one relationship in the role (all parents when role is None),
\* exactly the (child, weight) pairs of the parent's relationships in the
\* role, ordered by ascending order value.
C9_NetworkByRoleOrdered ==
    calc_op = "network" =>
        LET role == calc_call.role
            net  == calc_call.network
        IN /\ Keys(net) = {calc_relationships[e].key :
                              e \in {e \in 1..Len(calc_relationships) :
                                        InRole(calc_relationships[e].val, role) # <<>>}}
           /\ \A e \in 1..Len(calc_relationships) :
                 calc_relationships[e].key \in Keys(net) =>
                     LET F     == InRole(calc_relationships[e].val, role)
                         pairs == Get(net, calc_relationships[e].key)
                     IN /\ Len(pairs) = Len(F)
                        /\ \E pi \in Permutations(1..Len(F)) :
                              /\ \A i \in 1..Len(F) :
                                    pairs[i] = <<F[pi[i]].child, F[pi[i]].weight>>
                              /\ \A i \in 1..(Len(F) - 1) :
                                    F[pi[i]].order <= F[pi[i + 1]].order

\* a query by role that left out relationships of another role and
\* returned the pairs in an order other than the stored one
C9_Witness ==
    /\ calc_op = "network"
    /\ calc_call.role # None
    /\ \E e \in 1..Len(calc_relationships) :
          LET F == InRole(calc_relationships[e].val, calc_call.role)
          IN /\ calc_relationships[e].key \in Keys(calc_call.network)
             /\ Len(F) >= 2
             /\ Len(F) < Len(calc_relationships[e].val)
             /\ Get(calc_call.network, calc_relationships[e].key)
                    # [i \in 1..Len(F) |-> <<F[i].child, F[i].weight>>]

(***************************************************************************)
(* TaxonomyValidator.validate_concept: properties                          *)
(***************************************************************************)
\* C10: validate_concept on a concept that is not in the concept dictionary
\* returns an invalid result whose errors are exactly the one
\* not-found-in-taxonomy error and whose warnings are empty, whatever the
\* value and the context.
C10_UnknownConceptNotFoundOnly ==
    (tax_op = "validate_concept" /\ tax_call.concept \notin DOMAIN concept_info) =>
        /\ tax_call.result.is_valid = FALSE
        /\ tax_call.result.errors =
               <<[msg |-> "not found in taxonomy", arg |-> tax_call.concept]>>
        /\ tax_call.result.warnings = <<>>

\* an unknown concept validated against a loaded taxonomy, with a value and
\* a context that fail the checks of the known concepts
C10_Witness ==
    /\ tax_op = "validate_concept"
    /\ concept_info # EmptyDict
    /\ tax_call.concept \notin DOMAIN concept_info
    /\ tax_call.value.text = "words"
    /\ tax_call.context = <<>>
    /\ tax_call.result.errors # <<>>


(***************************************************************************)
(* TaxonomyValidator results: properties                                   *)
(***************************************************************************)
TaxValidations == {"validate_concept", "validate_context", "validate_unit"}

\* C11: every result returned by validate_concept, validate_context and
\* validate_unit is valid if and only if its error list is empty; warnings
\* never make a result invalid.
C11_ValidIffNoErrors ==
    (tax_op \in TaxValidations /\ ~tax_call.raised) =>
        (tax_call.result.is_valid <=> tax_call.result.errors = <<>>)

\* a unit whose currency code is unknown: a warning on a valid result
C11_Witness ==
    /\ tax_op = "validate_unit"
    /\ tax_call.result.is_valid
    /\ \E i \in 1..Len(tax_call.result.warnings) :
          tax_call.result.warnings[i].msg = "Unknown currency code"


PeriodErrors ==
    {"Context must have instant date for instant period type",
     "Context must have start and end dates for duration period type"}

C13_ContextPeriodShape ==
    (tax_op = "validate_context" /\ ~tax_call.raised) =>
        LET c == tax_call.context
            keys == DOMAIN c
            period == keys \cap {"instant", "startDate", "endDate"}
            both == "instant" \in keys /\ period # {"instant"}
            neither == "instant" \notin keys /\ period # {"startDate", "endDate"}
            reversed == {"startDate", "endDate"} \subseteq keys /\ c.startDate > c.endDate
            wellFormed ==
                /\ "entity" \in keys
                /\ c.entity \notin {None, ""}
                /\ \/ period = {"instant"}
                   \/ period = {"startDate", "endDate"} /\ c.startDate <= c.endDate
        IN /\ (both \/ neither \/ reversed) =>
                  ~tax_call.result.is_valid /\ tax_call.result.errors # <<>>
           /\ wellFormed => tax_call.result.is_valid

\* a context with an entity and a start date after its end date, reported
\* invalid
C13_Witness ==
    /\ tax_op = "validate_context"
    /\ ~tax_call.raised
    /\ DOMAIN tax_call.context = {"entity", "startDate", "endDate"}
    /\ tax_call.context.entity = "http://example.com:123"
    /\ tax_call.context.startDate > tax_call.context.endDate
    /\ ~tax_call.result.is_valid


\* the list a unit dict holds under a key, empty when the key is absent
ListOf(unit, key) == IF key \in DOMAIN unit THEN unit[key] ELSE <<>>

\* C14: validate_unit returns an invalid result if and only if the unit
\* declares no measure, or has divide true and an empty numerator or
\* denominator list; a currency code outside the reference set yields only
\* a warning and leaves the unit valid.
C14_UnitInvalidIff ==
    tax_op = "validate_unit" =>
        LET unit == tax_call.unit
            noMeasure == ListOf(unit, "measures") = <<>>
            divide == "divide" \in DOMAIN unit /\ unit.divide
            halfDivide == divide /\ (ListOf(unit, "numerator") = <<>>
                                     \/ ListOf(unit, "denominator") = <<>>)
            unknownCurrency ==
                \E i \in 1..Len(ListOf(unit, "measures")) :
                    /\ unit.measures[i].namespace = "iso4217"
                    /\ unit.measures[i].name \notin _get_valid_currencies
        IN /\ ~tax_call.result.is_valid <=> (noMeasure \/ halfDivide)
           /\ unknownCurrency =>
                  /\ \A i \in 1..Len(tax_call.result.errors) :
                        tax_call.result.errors[i].msg # "Unknown currency code"
                  /\ \E i \in 1..Len(tax_call.result.warnings) :
                        tax_call.result.warnings[i].msg = "Unknown currency code"

\* a divide unit with measures and a numerator but an empty denominator,
\* reported invalid
C14_Witness ==
    /\ tax_op = "validate_unit"
    /\ DOMAIN tax_call.unit = {"measures", "divide", "numerator", "denominator"}
    /\ tax_call.unit.measures # <<>>
    /\ tax_call.unit.divide
    /\ tax_call.unit.numerator # <<>>
    /\ tax_call.unit.denominator = <<>>
    /\ ~tax_call.result.is_valid


\* the context elements of a document, hidden section and body
AllContextElems(doc) ==
    Range(doc.contexts)
        \cup (IF "hidden" \in DOMAIN doc /\ doc.hidden # <<>>
                  THEN Range(doc.hidden[1].contexts) ELSE {})

\* the context the extraction builds from a context element
ContextFrom(e) ==
    XBRLContext(e.id, _extract_entity(e), _extract_period(e).instant,
                _extract_period(e).period_start, _extract_period(e).period_end)

\* C15: after any sequence of standard and inline loads no context of
\* the contexts collection is both instant and duration, and a context
\* extracted from an element of the loaded document that has an instant
\* child has neither period_start nor period_end.
C15_NeverInstantAndDuration ==
    /\ \A id \in DOMAIN contexts :
           ~(is_instant(contexts[id]) /\ is_duration(contexts[id]))
    /\ \A e \in AllContextElems(document) :
           (/\ Truthy(e.id)
            /\ e.period # <<>>
            /\ e.period[1].instant # <<>>
            /\ e.id \in DOMAIN contexts
            /\ contexts[e.id] = ContextFrom(e)) =>
               /\ contexts[e.id].period_start = None
               /\ contexts[e.id].period_end = None

\* after an inline load whose hidden section holds the context with an
\* instant, a start and an end date, that context is an instant beside
\* the duration context of an earlier standard load
C15_Witness ==
    /\ proc_op = "load_ixbrl_instance"
    /\ document.hidden # <<>>
    /\ \E e \in Range(document.hidden[1].contexts) :
           /\ e.id = "ctx1"
           /\ e.period # <<>>
           /\ e.period[1].instant # <<>>
           /\ e.period[1].startDate # <<>>
           /\ e.period[1].endDate # <<>>
           /\ contexts["ctx1"] = ContextFrom(e)
           /\ is_instant(contexts["ctx1"])
           /\ ~is_duration(contexts["ctx1"])
    /\ "ctx2" \in DOMAIN contexts
    /\ is_duration(contexts["ctx2"])
    /\ ~is_instant(contexts["ctx2"])


\* C16: after any sequence of unit extractions, every unit of the units
\* collection whose divide flag is true has a non-empty numerator list
\* and a non-empty denominator list.
C16_DivideUnitsComplete ==
    \A id \in DOMAIN units :
        units[id].divide =>
            units[id].numerator # <<>> /\ units[id].denominator # <<>>


\* a context element the extraction cannot use: it has an id and no
\* entity identifier, or a date of its period does not parse
BadContext(context) ==
    /\ Truthy(context.id)
    /\ ~Truthy(_extract_entity(context)) \/ _extract_period(context).raised

\* C17: load_instance on a document that holds exactly one context
\* element with missing or malformed sub-structure completes without
\* raising, the bad context is skipped, and every other context, unit
\* and fact of the document is extracted.
C17_BadContextSkipped ==
    LET elems == document.contexts
        bad == {i \in 1..Len(elems) : BadContext(elems[i])}
    IN (proc_op \in {"load_instance", "load_instance raised"} /\ Cardinality(bad) = 1) =>
           /\ proc_op = "load_instance"
           /\ \A i \in (1..Len(elems)) \ bad :
                  Truthy(elems[i].id) => elems[i].id \in DOMAIN contexts
           /\ units = _parse_units(document)
           /\ facts = _parse_facts(contexts, units, document.facts, Len(document.facts))


\* an inline load of a document with one fact element, which gave a fact
InlineCall ==
    /\ proc_op = "load_ixbrl_instance"
    /\ Len(document.facts) = 1
    /\ Len(facts) = 1

\* the text of the element before the scale is applied
PreScaleText(elem) ==
    IF Truthy(elem.format) THEN _apply_transform(_get_element_text(elem), elem.format)
    ELSE _get_element_text(elem)

\* the reference transform, step by step
DeleteAll(text, c) == LET Keep(x) == x # c IN SelectSeq(text, Keep)
CommaToPoint(text) == [i \in 1..Len(text) |-> IF text[i] = "," THEN "." ELSE text[i]]
FirstOutside(text, chars) ==
    FirstOf({i \in 1..(Len(text) + 1) : i = Len(text) + 1 \/ text[i] \notin chars})
LastOutside(text, chars) ==
    CHOOSE i \in 0..Len(text) :
        /\ i = 0 \/ text[i] \notin chars
        /\ \A j \in (i + 1)..Len(text) : text[j] \in chars
WithoutLeading(text, chars) == SubSeq(text, FirstOutside(text, chars), Len(text))
WithoutSurrounding(text, chars) ==
    SubSeq(text, FirstOutside(text, chars), LastOutside(text, chars))
Unwrapped(text) ==
    IF Len(text) >= 2 /\ text[1] = "(" /\ text[Len(text)] = ")"
        THEN <<"-">> \o SubSeq(text, 2, Len(text) - 1)
        ELSE text
WithoutPercent(text) ==
    IF text # <<>> /\ text[Len(text)] = "%" THEN SubSeq(text, 1, Len(text) - 1) ELSE text

\* the reference with the leading currency symbols stripped for
\* numdotdecimal
LeadingReference(text, format) ==
    LET cleaned ==
            CASE format = "ixt:numdotdecimal" ->
                     DeleteAll(WithoutLeading(text, CurrencySymbols), ",")
              [] format = "ixt:numcommadot" ->
                     CommaToPoint(DeleteAll(WithoutSurrounding(text, CurrencySymbols), "."))
              [] OTHER -> text
    IN WithoutPercent(Unwrapped(cleaned))

\* the reference with the currency symbols stripped at both ends for
\* both formats and the result trimmed
SurroundingReference(text, format) ==
    LET cleaned ==
            CASE format = "ixt:numdotdecimal" ->
                     DeleteAll(WithoutSurrounding(text, CurrencySymbols), ",")
              [] format = "ixt:numcommadot" ->
                     CommaToPoint(DeleteAll(WithoutSurrounding(text, CurrencySymbols), "."))
              [] OTHER -> text
    IN WithoutSurrounding(WithoutPercent(Unwrapped(cleaned)), Whitespace)

\* C18 as stated: the value of an inline fact with a format and no scale
\* is the reference transform of its trimmed text, where numdotdecimal
\* strips the leading currency symbols and deletes every ',', numcommadot
\* strips the currency symbols, deletes every '.' and turns each ','
\* into '.', and then a value wrapped in parentheses becomes '-' and the
\* inner text and a trailing '%' is removed.
C18_TransformAsStated ==
    (InlineCall /\ Truthy(document.facts[1].format) /\ document.facts[1].scale = <<>>) =>
        facts[1].value.text =
            LeadingReference(WithoutSurrounding(document.facts[1].text, Whitespace),
                             document.facts[1].format)

\* C18 amended: the same with the currency symbols $, euro, pound and yen
\* stripped at both ends of the text for numdotdecimal as for
\* numcommadot, and the whitespace the cleanup leaves around the value
\* trimmed at the end.
C18_TransformEqualsReference ==
    (InlineCall /\ Truthy(document.facts[1].format) /\ document.facts[1].scale = <<>>) =>
        facts[1].value.text =
            SurroundingReference(WithoutSurrounding(document.facts[1].text, Whitespace),
                                 document.facts[1].format)

\* '(1234.56)' with numdotdecimal and no scale gave '-1234.56'
C18_Witness ==
    /\ InlineCall
    /\ document.facts[1].format = "ixt:numdotdecimal"
    /\ document.facts[1].scale = <<>>
    /\ document.facts[1].text = <<"(", "1", "2", "3", "4", ".", "5", "6", ")">>
    /\ facts[1].value.text = <<"-", "1", "2", "3", "4", ".", "5", "6">>


\* a numeral of digits with at most one point after an optional minus
PlainNumeral(text) ==
    LET u == IF text # <<>> /\ text[1] = "-" THEN Tail(text) ELSE text
    IN /\ \E i \in 1..Len(u) : u[i] \in Digits
       /\ \A i \in 1..Len(u) : u[i] \in Digits \cup {"."}
       /\ Cardinality({i \in 1..Len(u) : u[i] = "."}) <= 1
WholeNumber(text) ==
    LET u == IF text # <<>> /\ text[1] \in {"-", "+"} THEN Tail(text) ELSE text
    IN u # <<>> /\ \A i \in 1..Len(u) : u[i] \in Digits

\* C19: for an inline fact whose cleaned text is a decimal numeral v and
\* whose scale is an integer s, the fact's value reads as a number equal
\* to v times ten to the s, with every digit of v kept.
C19_ScalingExact ==
    (/\ InlineCall
     /\ PlainNumeral(PreScaleText(document.facts[1]))
     /\ WholeNumber(document.facts[1].scale)) =>
        /\ DecimalParsesText(facts[1].value.text)
        /\ normalize(DecimalOfText(facts[1].value.text)) =
               normalize([DecimalOfText(PreScaleText(document.facts[1]))
                              EXCEPT !.exp = @ + IntOfText(document.facts[1].scale)])


\* a text the scaling cannot read as a number: it holds a character that
\* no numeral has and is neither a number word nor a token for nothing
NotNumeral(text) ==
    /\ \E i \in 1..Len(text) : text[i] \notin Digits \cup {".", ",", "-", "+", " "}
    /\ lower(text) \notin Range(number_words) \cup EmptyTokens

\* C20: when the text of an inline fact with a scale is not a numeral, or
\* its scale is not an integer, the fact is still produced and its value
\* is the text before scaling, unchanged character for character.
C20_FailureKeepsText ==
    (/\ proc_op = "load_ixbrl_instance"
     /\ Len(document.facts) = 1
     /\ document.facts[1].scale # <<>>
     /\ PreScaleText(document.facts[1]) # <<>>
     /\ \/ NotNumeral(PreScaleText(document.facts[1]))
        \/ /\ ~WholeNumber(document.facts[1].scale)
           /\ lower(PreScaleText(document.facts[1])) \notin EmptyTokens) =>
        /\ Len(facts) = 1
        /\ facts[1].value.text = PreScaleText(document.facts[1])


(***************************************************************************)
(* The validators as readers of the document model: properties             *)
(***************************************************************************)
\* the same call as the last one on the same validator object
RepeatedProcessorCall == proc_op = "validate" /\ proc_op' = "validate"

RepeatedCalcCall ==
    /\ calc_op \in {"validate", "network", "roots"}
    /\ calc_op' = calc_op
    /\ calc_call'.facts = calc_call.facts
    /\ calc_call'.role = calc_call.role

RepeatedTaxCall ==
    /\ tax_op \in {"validate_concept", "validate_context", "validate_unit"}
    /\ tax_op' = tax_op
    /\ tax_call'.concept = tax_call.concept
    /\ tax_call'.value = tax_call.value
    /\ tax_call'.context = tax_call.context
    /\ tax_call'.unit = tax_call.unit

\* C21: a step of validate(), validate_calculations, get_calculation_network,
\* get_calculation_roots, validate_concept, validate_context or validate_unit
\* leaves contexts, units, facts, the stored calculation relationships and
\* the concept dictionary as they were, and a call that repeats the last
\* call on the same validator returns what the last call returned.
C21_ValidatorsOnlyRead ==
    [][ValidatorStep =>
          /\ UNCHANGED <<contexts, units, facts, calc_relationships, concept_info>>
          /\ RepeatedProcessorCall => errors' = errors
          /\ RepeatedCalcCall => calc_call' = calc_call
          /\ RepeatedTaxCall => tax_call' = tax_call]_vars

\* every validator has returned diagnostics over a populated model
C21_Witness ==
    /\ proc_op = "validate" /\ Len(errors) >= 2 /\ DOMAIN contexts # {}
    /\ calc_op = "validate" /\ calc_call.errors # <<>> /\ calc_relationships # <<>>
    /\ tax_op = "validate_concept" /\ ~tax_call.result.is_valid
    /\ DOMAIN concept_info # {}


(***************************************************************************)
(* validate_context_calculations over any relationship data: properties    *)
(***************************************************************************)
HasChild(rels, parent, child) ==
    \E e \in 1..Len(rels) :
        /\ rels[e].key = parent
        /\ \E i \in 1..Len(rels[e].val) : rels[e].val[i].child = child

\* C22: whatever relationships are stored (several roles under one parent,
\* cyclic data), validate_context_calculations returns for a mapping of
\* Decimal values, and the returned list never holds two diagnostics for
\* the same parent concept in the same context.
C22_OneDiagnosticPerParentPerContext ==
    calc_op = "validate" =>
        /\ AllDecimal(calc_call.facts) => ~calc_call.raised
        /\ \A i, j \in 1..Len(calc_call.errors) :
              (/\ calc_call.errors[i].parent = calc_call.errors[j].parent
               /\ calc_call.errors[i].context = calc_call.errors[j].context) => i = j

\* cyclic data with a parent related in two roles, validated in two
\* contexts: both parents get their diagnostic in each context
C22_Witness ==
    /\ calc_op = "validate" /\ ~calc_call.raised
    /\ HasChild(calc_relationships, "NetIncome", "Revenue")
    /\ HasChild(calc_relationships, "Revenue", "NetIncome")
    /\ \E e \in 1..Len(calc_relationships) :
          \E i, j \in 1..Len(calc_relationships[e].val) :
              calc_relationships[e].val[i].role # calc_relationships[e].val[j].role
    /\ Len(calc_call.facts) = 2
    /\ Len(calc_call.errors) = 4


(***************************************************************************)
(* The order of the parses within one load: properties                     *)
(***************************************************************************)
\* a step that creates a fact: it joins facts_found or self.facts
FactCreated == Len(pc'.found) > Len(pc.found) \/ Len(facts') > Len(facts)

\* the contexts and units the standard parses find in the document loaded
DocumentContextIds ==
    DOMAIN _parse_contexts(EmptyDict, document.contexts, Len(document.contexts)).contexts

\* C23: within one load, a fact is created only in the fact parse and only
\* once the context parse and the unit parse have returned; no step of the
\* fact parse, and no later step of the load, changes contexts or units;
\* and when load_instance creates a fact, contexts holds every context of
\* the document and units is the complete unit collection of the document.
C23_FactsAfterContextsAndUnits ==
    [][/\ FactCreated =>
             /\ pc.phase = "facts"
             /\ {"contexts", "units"} \subseteq pc.done
       /\ (contexts' # contexts \/ units' # units) =>
             /\ pc.phase # "facts"
             /\ "facts" \notin pc.done
       /\ (FactCreated /\ pc.op = "load_instance") =>
             /\ DocumentContextIds \subseteq DOMAIN contexts
             /\ units = _parse_units(document)]_vars

\* a standard load is creating its second fact, from a document that
\* declares two contexts and two units
C23_Witness ==
    /\ pc.op = "load_instance" /\ pc.phase = "facts"
    /\ Len(pc.found) = 1 /\ pc.i >= 1
    /\ Cardinality(DocumentContextIds) = 2
    /\ Cardinality(DOMAIN units) = 2


(***************************************************************************)
(* Standard fact extraction: properties                                    *)
(***************************************************************************)
\* the context reference of a fact element: contextRef, else numericContext
ContextRefOf(elem) ==
    IF Truthy(elem.contextRef) THEN elem.contextRef ELSE elem.numericContext

\* the elements of the loaded document whose reference names no context held
UnresolvedElements ==
    {k \in 1..Len(document.facts) :
        /\ Truthy(ContextRefOf(document.facts[k]))
        /\ ContextRefOf(document.facts[k]) \notin DOMAIN contexts}

\* C24: after load_instance has returned, every fact of the facts
\* collection has a context_ref that is a key of contexts, and an element
\* whose contextRef or numericContext names no context held has left no
\* fact behind (there are at most as many facts as elements that resolve);
\* the load returns all the same.
C24_FactsHaveKnownContext ==
    proc_op = "load_instance" =>
        /\ \A i \in 1..Len(facts) : facts[i].context_ref \in DOMAIN contexts
        /\ \A k \in UnresolvedElements :
              \A i \in 1..Len(facts) :
                  facts[i].context_ref # ContextRefOf(document.facts[k])
        /\ Len(facts) <= Len(document.facts) - Cardinality(UnresolvedElements)

\* a load has returned with facts from a document that holds an element
\* with an unresolved contextRef and one with an unresolved numericContext
C24_Witness ==
    /\ proc_op = "load_instance"
    /\ facts # <<>>
    /\ \E k \in UnresolvedElements : Truthy(document.facts[k].contextRef)
    /\ \E k \in UnresolvedElements : ~Truthy(document.facts[k].contextRef)


\* the elements of the loaded document that _parse_facts turned into facts
ProducesFact(elem) ==
    /\ ~elem.in_instance_namespace
    /\ Truthy(ContextRefOf(elem))
    /\ ContextRefOf(elem) \in DOMAIN contexts
    /\ _extract_fact_value(elem) # <<>>

ProducingElements == SelectSeq(document.facts, ProducesFact)

\* the unit diagnostics validate() returns for fact i in this state
UnitDiagnostics(i) ==
    {d \in Range(ValidateFacts(facts, contexts, units, Len(facts))) :
        d.fact = i /\ d.kind \in {"MissingUnitRef", "MissingUnit"}}

\* a numeric fact without unitRef whose context id is a key of units gets
\* no missing-unit diagnostic
LegacyUnitResolves ==
    \A i \in 1..Len(facts) :
        (/\ IsNumeric(facts[i].value)
         /\ ~Truthy(ProducingElements[i].unitRef)
         /\ facts[i].context_ref \in DOMAIN units) => UnitDiagnostics(i) = {}

\* C25 as stated: the fact's unit_ref is the unitRef attribute whenever the
\* element has one; otherwise the context id when that is a key of units;
\* otherwise absent.
C25_UnitRefAsStated ==
    proc_op = "load_instance" =>
        /\ Len(facts) = Len(ProducingElements)
        /\ \A i \in 1..Len(facts) :
              IF ProducingElements[i].unitRef # None
                  THEN facts[i].unit_ref = ProducingElements[i].unitRef
              ELSE IF facts[i].context_ref \in DOMAIN units
                  THEN facts[i].unit_ref = facts[i].context_ref
              ELSE facts[i].unit_ref = None
        /\ LegacyUnitResolves

\* C25: the fact's unit_ref is the unitRef attribute when the element has a
\* non-empty one; otherwise (attribute absent or empty) the context id when
\* that is a key of units; otherwise what the attribute gave, absent or
\* empty.  A numeric fact without unitRef whose numeric context holds a
\* unit gets no missing-unit diagnostic from validate().
C25_UnitRefFromAttributeOrContext ==
    proc_op = "load_instance" =>
        /\ Len(facts) = Len(ProducingElements)
        /\ \A i \in 1..Len(facts) :
              IF Truthy(ProducingElements[i].unitRef)
                  THEN facts[i].unit_ref = ProducingElements[i].unitRef
              ELSE IF facts[i].context_ref \in DOMAIN units
                  THEN facts[i].unit_ref = facts[i].context_ref
              ELSE facts[i].unit_ref = ProducingElements[i].unitRef
        /\ LegacyUnitResolves

\* a load has produced a numeric fact from an element without unitRef whose
\* numeric context holds a unit, beside a fact that keeps its own unitRef
C25_Witness ==
    /\ proc_op = "load_instance"
    /\ Len(facts) = Len(ProducingElements)
    /\ \E i \in 1..Len(facts) :
          /\ ProducingElements[i].unitRef = None
          /\ ProducingElements[i].numericContext = facts[i].context_ref
          /\ IsNumeric(facts[i].value)
          /\ facts[i].unit_ref = facts[i].context_ref
          /\ facts[i].context_ref \in DOMAIN units
    /\ \E i \in 1..Len(facts) :
          /\ facts[i].unit_ref = "usd"
          /\ facts[i].context_ref \in DOMAIN units


(***************************************************************************)
(* load_ixbrl_instance, hidden section and whole-document scans: properties*)
(***************************************************************************)
\* what the hidden section of the document being loaded yields
HiddenContextIds ==
    IF document.hidden = <<>> THEN {}
    ELSE DOMAIN HiddenContexts(EmptyDict, document.hidden[1].contexts,
                               Len(document.hidden[1].contexts)).contexts
HiddenUnitIds ==
    IF document.hidden = <<>> THEN {}
    ELSE DOMAIN StandaloneUnits(EmptyDict, document.hidden[1].units,
                                Len(document.hidden[1].units))

\* the contexts declared outside the hidden section only
OutsideOnlyContextIds ==
    {document.contexts[k].id : k \in 1..Len(document.contexts)} \ HiddenContextIds

\* C26: in load_ixbrl_instance the hidden section is parsed before any
\* scan; the context scan stores something only if the hidden section
\* yielded no context, the unit scan only if it yielded no unit; and when
\* the hidden section yields a context, the load adds no context beyond
\* those of the hidden section.
C26_ScansOnlyWithoutHiddenYield ==
    [][pc.op = "load_ixbrl_instance" =>
          /\ (pc.phase # "hidden" /\ (contexts' # contexts \/ units' # units)) =>
                 "hidden" \in pc.done
          /\ (pc.phase = "contexts" /\ contexts' # contexts) => HiddenContextIds = {}
          /\ (pc.phase = "units" /\ units' # units) => HiddenUnitIds = {}
          /\ HiddenContextIds # {} =>
                 (DOMAIN contexts') \ (DOMAIN contexts) \subseteq HiddenContextIds]_vars

\* a load has returned on a document whose hidden section yields ctx1 and
\* whose body declares ctx2: ctx2 is not held
C26_Witness ==
    /\ proc_op = "load_ixbrl_instance"
    /\ HiddenContextIds = {"ctx1"}
    /\ OutsideOnlyContextIds = {"ctx2"}
    /\ DOMAIN contexts = {"ctx1"}


(***************************************************************************)
(* The entity of an extracted context: properties                          *)
(***************************************************************************)
\* the entity as stated: scheme + ':' + trimmed text, or the trimmed text
\* alone when the identifier has no scheme
StatedEntity(identifier) ==
    IF Truthy(identifier.scheme)
        THEN SchemeAndText(identifier.scheme, strip(identifier.text))
        ELSE strip(identifier.text)

Resolvable(e) == e.identifier # <<>> /\ Truthy(strip(e.identifier[1].text))

\* C27: every context held has a non-empty entity, and a context extracted
\* from an element of the loaded document comes from an element with a
\* resolvable identifier and has the entity scheme:text, or the text alone
\* when the identifier has no scheme.
C27_EntityAsStated ==
    /\ \A id \in DOMAIN contexts : contexts[id].entity # ""
    /\ \A e \in AllContextElems(document) :
           (/\ Truthy(e.id)
            /\ e.id \in DOMAIN contexts
            /\ contexts[e.id] = ContextFrom(e)) =>
               /\ Resolvable(e)
               /\ contexts[e.id].entity = StatedEntity(e.identifier[1])


(***************************************************************************)
(* Two loads on one processor: properties                                  *)
(***************************************************************************)
\* the contexts a standard load finds in a document
ContextsOf(doc) ==
    _parse_contexts(EmptyDict, doc.contexts, Len(doc.contexts)).contexts

\* the ids a unit of the document can be stored under
UnitIdsOf(doc) ==
    {doc.units[k].id : k \in 1..Len(doc.units)}
        \cup {doc.contexts[k].id : k \in {j \in 1..Len(doc.contexts) :
                                             doc.contexts[j].unit # <<>>}}

\* C28: a load_instance that returns on a processor that has loaded before
\* leaves in units and facts only what comes from the document it loaded,
\* keeps every context held before unless the document declares the same
\* id, and holds the document's context under every id the document
\* declares.
C28_SecondLoadResetsFactsAndUnitsOnly ==
    [][proc_op' = "load_instance" =>
          /\ DOMAIN units' \subseteq UnitIdsOf(document')
          /\ Len(facts') <= Len(document'.facts)
          /\ \A i \in 1..Len(facts') :
                \E k \in 1..Len(document'.facts) :
                    /\ document'.facts[k].concept = facts'[i].concept
                    /\ ContextRefOf(document'.facts[k]) = facts'[i].context_ref
          /\ \A id \in DOMAIN contexts :
                /\ id \in DOMAIN contexts'
                /\ id \notin DOMAIN ContextsOf(document') => contexts'[id] = contexts[id]
          /\ \A id \in DOMAIN ContextsOf(document') :
                /\ id \in DOMAIN contexts'
                /\ contexts'[id] = ContextsOf(document')[id]]_vars

\* after a second load: a fact of the document refers to a context that
\* only an earlier document declared, and no unit of the earlier document
\* is left
C28_Witness ==
    /\ proc_op = "load_instance"
    /\ \E i \in 1..Len(facts) :
          /\ facts[i].context_ref \in DOMAIN contexts
          /\ facts[i].context_ref \notin DOMAIN ContextsOf(document)
    /\ DOMAIN ContextsOf(document) # {}
    /\ DOMAIN units = {"usd"}


(***************************************************************************)
(* A parent with relationships of several roles: properties                *)
(***************************************************************************)
RolesOf(relationships) == {relationships[j].role : j \in 1..Len(relationships)}

\* the relationships of the list whose child has no value in m
AbsentRelationships(relationships, m) ==
    {j \in 1..Len(relationships) : relationships[j].child \notin DOMAIN m}

\* the label of a role: its roleRef label, "default" without roleRef
LabelOf(role) ==
    IF \E r \in 1..Len(calculation_roles) : calculation_roles[r].key = role
        THEN Get(calculation_roles, role) ELSE "default"

\* C29: whenever validate_calculations returns, a parent that has a value
\* in a context gets at most one diagnostic there, made over all its
\* relationships whatever their roles: with a child absent, a
\* missing-children diagnostic with one entry per relationship whose child
\* is absent; otherwise the expected sum adds child value x weight once per
\* relationship (a child related twice is added twice), and the
\* calculation-error diagnostic, if any, carries that sum and the label of
\* the role of the parent's first-loaded relationship.
C29_OneCheckOverAllRoles ==
    (calc_op = "validate" /\ ~calc_call.raised) =>
        \A i \in 1..Len(calc_call.facts), e \in 1..Len(calc_relationships) :
            LET m == calc_call.facts[i].val
                parent == calc_relationships[e].key
                rs == calc_relationships[e].val
                ds == CalcDiagnosticsFor(parent, calc_call.facts[i].key)
            IN parent \in DOMAIN m =>
                  /\ Cardinality(ds) <= 1
                  /\ \A k \in ds :
                        IF AbsentRelationships(rs, m) # {}
                            THEN /\ calc_call.errors[k].kind = "MissingChildren"
                                 /\ Len(calc_call.errors[k].missing)
                                        = Cardinality(AbsentRelationships(rs, m))
                                 /\ Range(calc_call.errors[k].missing) = AbsentChildren(rs, m)
                            ELSE /\ calc_call.errors[k].kind = "CalculationError"
                                 /\ calc_call.errors[k].expected = WeightedSum(rs, m, Len(rs))
                                 /\ calc_call.errors[k].role = LabelOf(rs[1].role)
                  /\ (AbsentRelationships(rs, m) = {}
                        /\ Abs(m[parent].n - WeightedSum(rs, m, Len(rs))) > Tolerance) =>
                         ds # {}

\* a calculation error for a parent related in two roles, one of its
\* children related twice, labelled by the role loaded first although a
\* relationship of the other role comes first in the order
C29_Witness ==
    /\ calc_op = "validate" /\ ~calc_call.raised
    /\ \E k \in 1..Len(calc_call.errors), e \in 1..Len(calc_relationships) :
          LET rs == calc_relationships[e].val
          IN /\ calc_call.errors[k].kind = "CalculationError"
             /\ calc_call.errors[k].parent = calc_relationships[e].key
             /\ Cardinality(RolesOf(rs)) = 2
             /\ \E a, b \in 1..Len(rs) : a < b /\ rs[a].child = rs[b].child
             /\ calc_call.errors[k].role = "net-income"
             /\ rs[1].role = RoleNetIncome
             /\ \E j \in 2..Len(rs) : rs[j].role # rs[1].role /\ rs[j].order <= rs[1].order


(***************************************************************************)
(* load_calculation_linkbase and malformed arcs: properties                *)
(***************************************************************************)
\* an arc the load can store: weight and order parse, both labels have a
\* locator in the arc's own group
WellFormedArc(arc, locators) ==
    /\ DecimalParses(AttrGet(arc.weight, "1.0"))
    /\ IntParses(AttrGet(arc.order, "1"))
    /\ arc.from \in Keys(locators) /\ arc.to \in Keys(locators)

Stored(rel) ==
    \E e \in 1..Len(calc_relationships) :
        /\ calc_relationships[e].key = rel.parent
        /\ \E j \in 1..Len(calc_relationships[e].val) : calc_relationships[e].val[j] = rel

\* C30: a load of a linkbase does not raise, whatever arcs are malformed,
\* and every well-formed arc of the linkbase is stored, those before and
\* those after a malformed one.
C30_MalformedArcSkipped ==
    calc_op = "load" =>
        /\ ~calc_call.raised
        /\ \A l \in 1..Len(calc_call.doc.links) :
              LET link == calc_call.doc.links[l]
                  locators == BuildLocators(link.locs, Len(link.locs))
              IN \A a \in 1..Len(link.arcs) :
                    WellFormedArc(link.arcs[a], locators) =>
                        Stored(CalculationRelationship(
                                   Get(locators, link.arcs[a].from),
                                   Get(locators, link.arcs[a].to),
                                   DecimalOf(AttrGet(link.arcs[a].weight, "1.0")),
                                   IntOf(AttrGet(link.arcs[a].order, "1")),
                                   AttrGet(link.role, "")))

====
